---- MODULE Spec2Model ----
(***************************************************************************)
(* Interrupt-handling core of the limin-rust-x64 kernel: descriptor table  *)
(* builder (idt.rs), trampolines (interrupts_asm.rs), dispatcher           *)
(* (interrupts.rs), 8259A controller driver (pic.rs), timer driver         *)
(* (timer.rs) and the boot sequence (main.rs).                             *)
(*                                                                         *)
(* 64-bit values are four 16-bit limbs, least significant first, so that   *)
(* all-ones patterns, the u64::MAX sentinel and the descriptor's           *)
(* low/mid/high split are exact.  Addresses of the modelled stack are      *)
(* small naturals (byte addresses, 8-byte slots).                          *)
(***************************************************************************)
EXTENDS Integers, Sequences, FiniteSets, TLC

(***************************************************************************)
(* Bounds of the model.                                                    *)
(***************************************************************************)
\* times halt_system is entered in one run: a halted processor still takes
\* the non-maskable interrupt, whose handler halts again on a deeper stack
MaxHalts == 2
\* TIMER_TICKS values explored: timer interrupts are delivered while
\* TIMER_TICKS < MaxTicks
MaxTicks == 3
\* number of driver operations one run of the controller harness performs
MaxOps == 1
\* TIMER_TICKS values explored by the kernel: the self-test waits for ten
\* ticks, so more than ten are delivered
MaxBootTicks == 11
\* the self-test's polling loop is run as this many stretches of
\* consecutive iterations, interrupts arriving between the stretches
MaxPollRuns == 2
\* vectors without an entry stub that fire once the kernel idles
MaxTraps == 1
\* fault codes 0..MaxFaultCode are reported, alone and with higher bits set
MaxFaultCode == 15
\* timer frequencies 1..MaxFreq are tried, besides a few large ones
MaxFreq == 120

\* struct InterruptFrame: 15 registers, int_no, err_code, 5 processor words
FrameWords == 22
\* the modelled stack holds one frame, its alignment slot and the call's
\* return address per handler that can be active; the interrupted code's
\* stack pointer is StackTop or StackTop - 8, so both alignments occur
StackSlots == (FrameWords + 3) * (MaxHalts + 1)
StackTop == 8 * StackSlots
StackAddrs == {8 * i : i \in 1..(StackSlots + 1)}

(***************************************************************************)
(* 64-bit words and bytes.                                                 *)
(***************************************************************************)
W(n) == <<n % 65536, (n \div 65536) % 65536, 0, 0>>
U64_MAX == <<65535, 65535, 65535, 65535>>
NULL == W(0)
\* the value of a word that fits in 31 bits
Val(w) == w[1] + 65536 * w[2]
\* int_no > 255 on a u64
Above255(w) == w[1] > 255 \/ w[2] # 0 \/ w[3] # 0 \/ w[4] # 0

Pow2(i) == 2 ^ i
Bit(x, i) == (x \div Pow2(i)) % 2
\* mask |= 1 << i   and   mask &= !(1 << i)   on a u8
OrBit(x, i) == x + (1 - Bit(x, i)) * Pow2(i)
AndNotBit(x, i) == x - Bit(x, i) * Pow2(i)
\* lowest set bit of a byte (the 8259A's highest-priority line), 8 if none
LowestBit(x) == IF x = 0 THEN 8 ELSE CHOOSE i \in 0..7 : Bit(x, i) = 1 /\ \A j \in 0..(i - 1) : Bit(x, j) = 0

(***************************************************************************)
(* Port numbers and commands (pic.rs, timer.rs, interrupts.rs).            *)
(***************************************************************************)
PIC1_COMMAND == 32
PIC1_DATA == 33
PIC2_COMMAND == 160
PIC2_DATA == 161
PIC_EOI == 32
WAIT_PORT == 128
PIT_COMMAND == 67
PIT_CHANNEL0 == 64
KBD_DATA == 96

PicPorts == {PIC1_COMMAND, PIC1_DATA, PIC2_COMMAND, PIC2_DATA}
PicCommandPorts == {PIC1_COMMAND, PIC2_COMMAND}
PicDataPorts == {PIC1_DATA, PIC2_DATA}

(***************************************************************************)
(* The 8259A pair as the driver's port accesses see it.  A chip is         *)
(* [imr, isr, step, base, ic4, sngl]: mask register, in-service register,  *)
(* position in the initialization sequence (0 = operational, 2..4 = the    *)
(* next data-port write is ICW2..ICW4), vector base.                       *)
(***************************************************************************)
ChipCommand(c, val) ==
    IF Bit(val, 4) = 1
    THEN [c EXCEPT !.imr = 0, !.step = 2, !.ic4 = (Bit(val, 0) = 1), !.sngl = (Bit(val, 1) = 1)]
    ELSE IF val = PIC_EOI
         THEN [c EXCEPT !.isr = IF c.isr = 0 THEN 0 ELSE AndNotBit(c.isr, LowestBit(c.isr))]
         ELSE c

ChipData(c, val) ==
    CASE c.step = 2 -> [c EXCEPT !.base = val - (val % 8),
                                 !.step = IF c.sngl THEN (IF c.ic4 THEN 4 ELSE 0) ELSE 3]
      [] c.step = 3 -> [c EXCEPT !.step = IF c.ic4 THEN 4 ELSE 0]
      [] c.step = 4 -> [c EXCEPT !.step = 0]
      [] OTHER      -> [c EXCEPT !.imr = val]

\* out dx, al
outb(p, port, val) ==
    CASE port = PIC1_COMMAND -> [p EXCEPT ![1] = ChipCommand(p[1], val)]
      [] port = PIC1_DATA    -> [p EXCEPT ![1] = ChipData(p[1], val)]
      [] port = PIC2_COMMAND -> [p EXCEPT ![2] = ChipCommand(p[2], val)]
      [] port = PIC2_DATA    -> [p EXCEPT ![2] = ChipData(p[2], val)]
      [] OTHER               -> p

\* in al, dx on a data port reads the mask register
inb(p, port) == IF port = PIC1_DATA THEN p[1].imr ELSE p[2].imr

Out(port, val) == <<"out", port, val>>
In(port, val) == <<"in", port, val>>

RECURSIVE RunIo(_, _)
\* the controller state after a sequence of port accesses
RunIo(p, evs) ==
    IF evs = <<>> THEN p
    ELSE RunIo(IF Head(evs)[1] = "out" THEN outb(p, Head(evs)[2], Head(evs)[3]) ELSE p, Tail(evs))

(***************************************************************************)
(* Controller driver (pic.rs): each function is the sequence of port       *)
(* accesses it performs.                                                   *)
(***************************************************************************)
io_wait == Out(WAIT_PORT, 0)

\* pic::init, lines 48-119: ICW1..ICW4, master before slave
InitWords_SlaveFirst ==
    << Out(PIC2_COMMAND, 17), io_wait, Out(PIC1_COMMAND, 17), io_wait,
       Out(PIC2_DATA, 40), io_wait, Out(PIC1_DATA, 32), io_wait,
       Out(PIC2_DATA, 2), io_wait, Out(PIC1_DATA, 4), io_wait,
       Out(PIC2_DATA, 1), io_wait, Out(PIC1_DATA, 1), io_wait >>
InitWords ==
    << Out(PIC1_COMMAND, 17), io_wait, Out(PIC2_COMMAND, 17), io_wait,
       Out(PIC1_DATA, 32), io_wait, Out(PIC2_DATA, 40), io_wait,
       Out(PIC1_DATA, 4), io_wait, Out(PIC2_DATA, 2), io_wait,
       Out(PIC1_DATA, 1), io_wait, Out(PIC2_DATA, 1), io_wait >>

\* pic::init, lines 121-136: mask all interrupts
InitMaskAll_Forgotten == <<>>
InitMaskAll == << Out(PIC1_DATA, 255), io_wait, Out(PIC2_DATA, 255), io_wait >>

\* pic::init, lines 138-153: clear any pending interrupt
InitEoi == << Out(PIC1_COMMAND, PIC_EOI), io_wait, Out(PIC2_COMMAND, PIC_EOI), io_wait >>

\* the same accesses with every delay left out
pic_init_NoDelay(p) ==
    << In(PIC1_DATA, inb(p, PIC1_DATA)), In(PIC2_DATA, inb(p, PIC2_DATA)) >>
    \o SelectSeq(InitWords \o InitMaskAll \o InitEoi, LAMBDA e : e # io_wait)
pic_init(p) ==
    << In(PIC1_DATA, inb(p, PIC1_DATA)), io_wait, In(PIC2_DATA, inb(p, PIC2_DATA)), io_wait >>
    \o InitWords \o InitMaskAll \o InitEoi

\* an acknowledgment that first masks every line of the master chip
send_eoi_MaskingAll(irq) ==
    << Out(PIC1_DATA, 255) >> \o (IF irq >= 8 THEN << Out(PIC2_COMMAND, PIC_EOI) >> ELSE <<>>)
    \o << Out(PIC1_COMMAND, PIC_EOI) >>
send_eoi_SlaveOnly(irq) ==
    IF irq >= 8 THEN << Out(PIC2_COMMAND, PIC_EOI) >> ELSE << Out(PIC1_COMMAND, PIC_EOI) >>
send_eoi(irq) ==
    (IF irq >= 8 THEN << Out(PIC2_COMMAND, PIC_EOI) >> ELSE <<>>)
    \o << Out(PIC1_COMMAND, PIC_EOI) >>

IrqPort_AlwaysMaster(irq) == PIC1_DATA
IrqPort(irq) == IF irq < 8 THEN PIC1_DATA ELSE PIC2_DATA
IrqBit(irq) == IF irq < 8 THEN irq ELSE irq - 8

unmask_irq(p, irq) ==
    << In(IrqPort(irq), inb(p, IrqPort(irq))),
       Out(IrqPort(irq), AndNotBit(inb(p, IrqPort(irq)), IrqBit(irq))) >>

mask_irq_ReadOnly(p, irq) == << In(IrqPort(irq), inb(p, IrqPort(irq))) >>
mask_irq(p, irq) ==
    << In(IrqPort(irq), inb(p, IrqPort(irq))),
       Out(IrqPort(irq), OrBit(inb(p, IrqPort(irq)), IrqBit(irq))) >>

get_mask(p, slave) == inb(p, IF slave THEN PIC2_DATA ELSE PIC1_DATA)

(***************************************************************************)
(* Registers, stack and the interrupt frame (interrupts_asm.rs,            *)
(* interrupts.rs).                                                         *)
(***************************************************************************)
\* isr_common_stub, the 15 pushes
PushOrder_RsiRdiSwapped ==
    <<"rax", "rbx", "rcx", "rdx", "rbp", "rdi", "rsi",
      "r8", "r9", "r10", "r11", "r12", "r13", "r14", "r15">>
PushOrder ==
    <<"rax", "rbx", "rcx", "rdx", "rbp", "rsi", "rdi",
      "r8", "r9", "r10", "r11", "r12", "r13", "r14", "r15">>
\* isr_common_stub, the 15 pops
PopOrder ==
    <<"r15", "r14", "r13", "r12", "r11", "r10", "r9", "r8",
      "rdi", "rsi", "rbp", "rdx", "rcx", "rbx", "rax">>
GPR == {PushOrder[i] : i \in 1..Len(PushOrder)}
\* registers a called extern "C" function may leave changed
CallerSaved == {"rax", "rcx", "rdx", "rsi", "rdi", "r8", "r9", "r10", "r11"}

\* struct InterruptFrame, in memory order
FrameFields ==
    <<"r15", "r14", "r13", "r12", "r11", "r10", "r9", "r8",
      "rdi", "rsi", "rbp", "rdx", "rcx", "rbx", "rax",
      "int_no", "err_code", "rip", "cs", "rflags", "rsp", "ss">>
FieldOffset(f) == 8 * ((CHOOSE i \in 1..Len(FrameFields) : FrameFields[i] = f) - 1)

\* what an overwritten register or stack slot holds
JUNK == <<57005, 48879, 57005, 48879>>

Load(m, a) == IF a \in DOMAIN m THEN m[a] ELSE JUNK
Store(m, a, w) == IF a \in DOMAIN m THEN [m EXCEPT ![a] = w] ELSE m
\* (*frame).field
Field(m, fp, f) == Load(m, Val(fp) + FieldOffset(f))

\* push: a machine stack is [mem, rsp]
Push(s, w) == [mem |-> Store(s.mem, s.rsp - 8, w), rsp |-> s.rsp - 8]
RECURSIVE PushSeq(_, _)
PushSeq(s, ws) == IF ws = <<>> THEN s ELSE PushSeq(Push(s, Head(ws)), Tail(ws))

RECURSIVE PopRegs(_, _, _, _)
\* pop each register of order in turn: [regs, rsp]
PopRegs(order, r, m, sp) ==
    IF order = <<>> THEN [regs |-> r, rsp |-> sp]
    ELSE PopRegs(Tail(order), [r EXCEPT ![Head(order)] = Load(m, sp)], m, sp + 8)

(***************************************************************************)
(* The processor's side of an interrupt: vectors for which it pushes an    *)
(* error code, the frame it pushes, and iretq.                             *)
(***************************************************************************)
CpuErrorCodeVectors == {8, 10, 11, 12, 13, 14, 17, 21, 29, 30}

\* RFLAGS with or without the interrupt flag (bit 9); bit 1 is always set
Rflags(if) == W(IF if THEN 514 ELSE 2)
FlagIF(w) == Bit(w[1], 9) = 1

\* the processor pushes SS, RSP, RFLAGS, CS, RIP and, for some vectors, an
\* error code; in long mode it first aligns the stack pointer to 16 bytes
CpuPush(s, v, err, align, rip, if, cs, ss) ==
    PushSeq([mem |-> s.mem, rsp |-> IF align THEN s.rsp - (s.rsp % 16) ELSE s.rsp],
            <<ss, W(s.rsp), Rflags(if), cs, rip>>
            \o (IF v \in CpuErrorCodeVectors THEN <<err>> ELSE <<>>))

(***************************************************************************)
(* Entry stubs isr0..isr47, isr128 and the shared isr_common_stub.         *)
(***************************************************************************)
StubVectors == (0..47) \cup {128}

\* the stubs that begin with "push 0" (dummy error code)
StubPushesDummy_AlsoFor17(v) == v \notin {8, 10, 11, 12, 13, 14, 21, 29, 30}
StubPushesDummy(v) == v \notin {8, 10, 11, 12, 13, 14, 17, 21, 29, 30}

\* isr<v>: [push 0;] push v; jmp isr_common_stub
isr_stub(s, v) == PushSeq(s, (IF StubPushesDummy(v) THEN <<W(0)>> ELSE <<>>) \o <<W(v)>>)

\* isr_common_stub up to the call: save the registers, rdi := rsp,
\* rbp := rsp, rsp := rsp and -16.  [mem, rsp, regs]
CommonEntry(s, r) ==
    LET t == PushSeq(s, [i \in 1..Len(PushOrder) |-> r[PushOrder[i]]])
    IN [mem  |-> t.mem,
        rsp  |-> t.rsp - (t.rsp % 16),
        regs |-> [r EXCEPT !["rdi"] = W(t.rsp), !["rbp"] = W(t.rsp)]]

\* bytes discarded after the pops: "add rsp, 16"
DiscardBytes == 16

\* isr_common_stub after the call, up to iretq: rsp := rbp, the 15 pops,
\* add rsp, 16.  [regs, rsp]
CommonExit(m, sp, r) ==
    LET p == PopRegs(PopOrder, r, m, Val(r["rbp"]))
    IN [regs |-> p.regs, rsp |-> p.rsp + DiscardBytes]

(***************************************************************************)
(* Dispatcher (interrupts.rs).  isr_common_handler is a function of the    *)
(* frame pointer, memory, TIMER_TICKS and the byte the keyboard port       *)
(* returns; its result is                                                  *)
(*   [halt, ticks, io, serial, rd, wr, mem]:                               *)
(* whether it ended in halt_system, the new TIMER_TICKS, the port accesses *)
(* it made, what it wrote to the serial sink, the frame fields it read and *)
(* wrote, and memory afterwards.                                           *)
(***************************************************************************)
\* lines 58-72: frame.is_null(), then int_no > 255
Validate_NoNullCheck(fp, m) ==
    IF Above255(Field(m, fp, "int_no")) THEN "invalid" ELSE "ok"
Validate(fp, m) ==
    IF fp = NULL THEN "null"
    ELSE IF Above255(Field(m, fp, "int_no")) THEN "invalid" ELSE "ok"

\* lines 86-134: the match on int_no (int_no <= 255 here)
Classify_BreakpointResumes(v) ==
    CASE v = 3 -> "software"
      [] v <= 31 -> "exception"
      [] v = 32 -> "timer"
      [] v = 33 -> "keyboard"
      [] v <= 47 -> "hwirq"
      [] v <= 127 -> "reserved"
      [] v = 128 -> "syscall"
      [] OTHER -> "software"
Classify_KeyboardTicks(v) ==
    CASE v <= 31 -> "exception"
      [] v = 32 -> "timer"
      [] v = 33 -> "timer"
      [] v <= 47 -> "hwirq"
      [] v <= 127 -> "reserved"
      [] v = 128 -> "syscall"
      [] OTHER -> "software"
Classify(v) ==
    CASE v <= 31 -> "exception"
      [] v = 32 -> "timer"
      [] v = 33 -> "keyboard"
      [] v <= 47 -> "hwirq"
      [] v <= 127 -> "reserved"
      [] v = 128 -> "syscall"
      [] OTHER -> "software"

\* lines 75-83: debug output for early interrupts
DebugPrefix(v, err, t) ==
    IF (v # 32 /\ t < 5) \/ (v = 32 /\ t < 3)
    THEN <<"[64-INT:">> \o (IF err # NULL THEN <<" ERR:0x">> ELSE <<>>) \o <<"] ">>
    ELSE <<>>

\* handle_timer_interrupt: TIMER_TICKS += 1
TickStep_Twice(t) == t + 2
TickStep(t) == t + 1

handle_timer_serial(t) ==
    (IF t <= 10 \/ t % 100 = 0 THEN <<"T64:", " ">> ELSE <<>>)
    \o (IF t <= 3 THEN <<"(RSP in timer: ", ") ">> ELSE <<>>)

\* handle_keyboard_interrupt: the scancode's name
\* lines 96-100: handle_keyboard_interrupt's port read, then pic::send_eoi(1)
KeyboardIo_AckFirst(sc) == send_eoi(1) \o <<In(KBD_DATA, sc)>>
KeyboardIo(sc) == <<In(KBD_DATA, sc)>> \o send_eoi(1)

KeyName(sc) ==
    CASE sc = 30 -> <<"(A) ">>
      [] sc = 48 -> <<"(B) ">>
      [] sc = 46 -> <<"(C) ">>
      [] sc = 1  -> <<"(ESC) ">>
      [] sc = 28 -> <<"(ENTER) ">>
      [] OTHER   -> <<>>

\* lines 101-110: the acknowledgment of vectors 34..47
IrqEoi_NeverSlave(v) == send_eoi(0)
IrqEoi(v) == IF v >= 40 THEN send_eoi(v - 32) ELSE send_eoi(0)

\* handle_cpu_exception_64: lines 247-271
ExceptionName(v) ==
    CASE v = 0 -> " (Divide by Zero)"
      [] v = 1 -> " (Debug)"
      [] v = 2 -> " (Non-Maskable Interrupt)"
      [] v = 3 -> " (Breakpoint)"
      [] v = 4 -> " (Overflow)"
      [] v = 5 -> " (Bound Range Exceeded)"
      [] v = 6 -> " (Invalid Opcode)"
      [] v = 7 -> " (Device Not Available)"
      [] v = 8 -> " (Double Fault)"
      [] v = 9 -> " (Coprocessor Segment Overrun)"
      [] v = 10 -> " (Invalid TSS)"
      [] v = 11 -> " (Segment Not Present)"
      [] v = 12 -> " (Stack Segment Fault)"
      [] v = 13 -> " (General Protection Fault)"
      [] v = 14 -> " (Page Fault)"
      [] v = 15 -> " (Reserved)"
      [] v = 16 -> " (x87 FPU Error)"
      [] v = 17 -> " (Alignment Check)"
      [] v = 18 -> " (Machine Check)"
      [] v = 19 -> " (SIMD Floating-Point Exception)"
      [] v = 20 -> " (Virtualization Exception)"
      [] v = 21 -> " (Control Protection Exception)"
      [] OTHER -> " (Reserved/Unknown)"

ExceptionDetail_UserFromBit3(v, err) ==
    CASE v = 14 ->
           <<"Page Fault Address: 0x", "Fault Type: ",
             IF Bit(err[1], 0) # 0 THEN "Protection " ELSE "Non-present ",
             IF Bit(err[1], 1) # 0 THEN "Write " ELSE "Read ",
             IF Bit(err[1], 3) # 0 THEN "User " ELSE "Supervisor ">>
      [] v = 13 -> IF err # NULL THEN <<"Selector: 0x">> ELSE <<>>
      [] OTHER -> <<>>
ExceptionDetail_SelectorLow16(v, err) ==
    CASE v = 14 ->
           <<"Page Fault Address: 0x", "Fault Type: ",
             IF Bit(err[1], 0) # 0 THEN "Protection " ELSE "Non-present ",
             IF Bit(err[1], 1) # 0 THEN "Write " ELSE "Read ",
             IF Bit(err[1], 2) # 0 THEN "User " ELSE "Supervisor ">>
      [] v = 13 -> IF err[1] # 0 THEN <<"Selector: 0x">> ELSE <<>>
      [] OTHER -> <<>>
\* lines 311-337: the per-vector decoding
ExceptionDetail(v, err) ==
    CASE v = 14 ->
           <<"Page Fault Address: 0x", "Fault Type: ",
             IF Bit(err[1], 0) # 0 THEN "Protection " ELSE "Non-present ",
             IF Bit(err[1], 1) # 0 THEN "Write " ELSE "Read ",
             IF Bit(err[1], 2) # 0 THEN "User " ELSE "Supervisor ">>
      [] v = 13 -> IF err # NULL THEN <<"Selector: 0x">> ELSE <<>>
      [] OTHER -> <<>>

handle_cpu_exception_64(v, err) ==
    <<"=== 64-BIT CPU EXCEPTION ===", "Exception #", ExceptionName(v),
      "Error Code: 0x", "RIP: 0x", "RSP: 0x", "RBP: 0x", "RAX: 0x", "CS: 0x", " RFLAGS: 0x">>
    \o ExceptionDetail(v, err) \o <<"=== SYSTEM HALTED ===">>

\* handle_system_call: the value left in the frame's rax
SyscallKnown_OnlyWrite(rax) == rax = W(0)
SyscallKnown(rax) == rax = W(0) \/ rax = W(1)
SyscallRax(rax) == IF SyscallKnown(rax) THEN rax ELSE U64_MAX
\* handle_system_call: the frame after the call, (*frame).rax = u64::MAX
\* in the unknown arm and no assignment in the others
SyscallStore_ErrCode(m, fp, rax) == Store(m, Val(fp) + FieldOffset("err_code"), SyscallRax(rax))
SyscallStore(m, fp, rax) == Store(m, Val(fp) + FieldOffset("rax"), SyscallRax(rax))
SyscallName(rax) ==
    IF rax = W(0) THEN "(write) " ELSE IF rax = W(1) THEN "(exit) " ELSE "(unknown) "

Outcome(h, t, i, s, r, w, m) ==
    [halt |-> h, ticks |-> t, io |-> i, serial |-> s, rd |-> r, wr |-> w, mem |-> m]

\* the match arms, for a validated frame
Route(fp, m, t, sc) ==
    LET v   == Val(Field(m, fp, "int_no"))
        err == Field(m, fp, "err_code")
        dbg == DebugPrefix(v, err, t)
        hdr == {"int_no", "err_code"}
        k   == Classify(v)
    IN CASE k = "exception" ->
              Outcome(TRUE, t, <<>>, dbg \o handle_cpu_exception_64(v, err),
                      hdr \cup {"rip", "rsp", "rbp", "rax", "cs", "rflags"}, {}, m)
         [] k = "timer" ->
              Outcome(FALSE, TickStep(t), send_eoi(0), dbg \o handle_timer_serial(TickStep(t)),
                      hdr, {}, m)
         [] k = "keyboard" ->
              Outcome(FALSE, t, KeyboardIo(sc),
                      dbg \o <<"K64:0x", " ">> \o KeyName(sc), hdr, {}, m)
         [] k = "hwirq" ->
              Outcome(FALSE, t, IrqEoi(v), dbg \o <<"HW-IRQ:", " ">>, hdr, {}, m)
         [] k = "reserved" ->
              Outcome(FALSE, t, <<>>, dbg \o <<"WARN: Reserved interrupt ">>, hdr, {}, m)
         [] k = "syscall" ->
              LET rax == Field(m, fp, "rax")
              IN Outcome(FALSE, t, <<>>, dbg \o <<"SYSCALL:", " ", SyscallName(rax)>>,
                         hdr \cup {"rax", "rdi", "rsi", "rdx"},
                         IF SyscallKnown(rax) THEN {} ELSE {"rax"},
                         SyscallStore(m, fp, rax))
         [] OTHER ->
              Outcome(FALSE, t, <<>>, dbg \o <<"SW-INT:", " ">>, hdr, {}, m)

isr_common_handler(fp, m, t, sc) ==
    LET ok == Validate(fp, m)
    IN CASE ok = "null" ->
              Outcome(TRUE, t, <<>>, <<"ERROR: Null interrupt frame!">>, {}, {}, m)
         [] ok = "invalid" ->
              Outcome(TRUE, t, <<>>, <<"FATAL: Invalid 64-bit interrupt number: ">>,
                      {"int_no", "err_code"}, {}, m)
         [] OTHER -> Route(fp, m, t, sc)

\* halt_system: cli, then hlt forever; the interrupt flag it leaves
HaltIF_NoCli(if) == if
HaltIF(if) == FALSE

(***************************************************************************)
(* Interrupt descriptor table (idt.rs).  A descriptor is the record of     *)
(* struct IdtEntry; offset_high is 32 bits wide, kept as two 16-bit limbs. *)
(***************************************************************************)
INTERRUPT_GATE == 142
IDT_ENTRIES == 256
IdtEntrySize == 16

ZeroEntry ==
    [offset_low |-> 0, selector |-> 0, ist |-> 0, flags |-> 0, offset_mid |-> 0,
     offset_high |-> <<0, 0>>, reserved |-> 0]

\* 64-bit addition of a small offset, carrying through the limbs
Plus(w, n) ==
    LET s1 == w[1] + n
        s2 == w[2] + s1 \div 65536
        s3 == w[3] + s2 \div 65536
        s4 == w[4] + s3 \div 65536
    IN <<s1 % 65536, s2 % 65536, s3 % 65536, s4 % 65536>>

\* IdtEntry::set_handler
set_handler_HighMasked16(handler, selector, flags) ==
    [offset_low |-> handler[1], selector |-> selector, ist |-> 0, flags |-> flags,
     offset_mid |-> handler[2], offset_high |-> <<handler[3], 0>>, reserved |-> 0]
set_handler_MidLowSwapped(handler, selector, flags) ==
    [offset_low |-> handler[2], selector |-> selector, ist |-> 0, flags |-> flags,
     offset_mid |-> handler[1], offset_high |-> <<handler[3], handler[4]>>, reserved |-> 0]
set_handler(handler, selector, flags) ==
    [offset_low |-> handler[1], selector |-> selector, ist |-> 0, flags |-> flags,
     offset_mid |-> handler[2], offset_high |-> <<handler[3], handler[4]>>, reserved |-> 0]

\* the address the processor jumps to through a descriptor
HandlerAddress(e) == <<e.offset_low, e.offset_mid, e.offset_high[1], e.offset_high[2]>>
GatePresent(e) == Bit(e.flags, 7) = 1

\* where the linker put the symbols of an image linked at t: the entry
\* stubs isr0..isr47, isr128, default_isr and the two statics of idt.rs
isr(t, v) == Plus(t, 32 * v)
isr128(t) == Plus(t, 32 * 48)
default_isr(t) == Plus(t, 4096)
AddrOfIDT(t) == Plus(t, 16384)
AddrOfIDT_DESCRIPTOR(t) == Plus(t, 16384 + IDT_ENTRIES * IdtEntrySize)

\* idt::init: the handler given to vector v
AssignedHandler_Syscall128(t, v) ==
    IF v <= 47 THEN isr(t, v) ELSE IF v = 128 THEN isr128(t) ELSE default_isr(t)
AssignedHandler(t, v) == IF v <= 47 THEN isr(t, v) ELSE default_isr(t)

\* idt::init: limit and base of the table
IdtLimit == IDT_ENTRIES * IdtEntrySize - 1

(***************************************************************************)
(* Timer driver (timer.rs) and the 8254 channel 0 its port writes program. *)
(* The chip is [mode, next, low, reload]: operating mode, which byte the   *)
(* next data-port write carries, the low byte latched so far and the       *)
(* reload count (a count of 0 stands for 65536).                           *)
(***************************************************************************)
PIT_FREQ == 1193182
PIT_MODE2_LOHI == 52

\* a write to the command port: channel 0, access low byte then high byte
PitCommand(c, val) ==
    IF val \div 64 = 0 /\ (val \div 16) % 4 = 3
    THEN [c EXCEPT !.mode = (val \div 2) % 8, !.next = "lo"]
    ELSE c
\* a write to the channel 0 data port
PitData(c, val) ==
    IF c.next = "lo" THEN [c EXCEPT !.low = val, !.next = "hi"]
    ELSE [c EXCEPT !.reload = IF c.low + 256 * val = 0 THEN 65536 ELSE c.low + 256 * val,
                   !.next = "lo"]
RECURSIVE RunPit(_, _)
RunPit(c, evs) ==
    IF evs = <<>> THEN c
    ELSE LET e == Head(evs)
         IN RunPit(IF e[1] = "out" /\ e[2] = PIT_COMMAND THEN PitCommand(c, e[3])
                   ELSE IF e[1] = "out" /\ e[2] = PIT_CHANNEL0 THEN PitData(c, e[3])
                   ELSE c, Tail(evs))
\* the chip as the firmware leaves it: mode 3, full count (18.2 Hz)
BootPit == [mode |-> 3, next |-> "lo", low |-> 0, reload |-> 65536]

\* timer::init: the divisor check
TimerRejects_Never(divisor) == FALSE
TimerRejects_ZeroToo(divisor) == divisor > 65535 \/ divisor = 0
TimerRejects(divisor) == divisor > 65535
\* timer::init: divisor_low, divisor_high in the order they are written
DivisorBytes_HighFirst(divisor) == <<(divisor \div 256) % 256, divisor % 256>>
DivisorBytes(divisor) == <<divisor % 256, (divisor \div 256) % 256>>

\* timer::init(freq_hz), freq_hz > 0: the port writes
timer_init(freq_hz) ==
    LET divisor == PIT_FREQ \div freq_hz
    IN IF TimerRejects(divisor) THEN <<>>
       ELSE <<Out(PIT_COMMAND, PIT_MODE2_LOHI), Out(PIT_CHANNEL0, DivisorBytes(divisor)[1]),
              Out(PIT_CHANNEL0, DivisorBytes(divisor)[2])>>
\* timer::init(freq_hz): what it logs
timer_init_serial(freq_hz) ==
    IF TimerRejects(PIT_FREQ \div freq_hz)
    THEN <<"64-bit Timer init - ERROR: Divisor too large: 0x">>
    ELSE <<"64-bit Timer init - Frequency: ", "64-bit PIT programmed - Command: 0x34, Divisor Low: 0x">>

(***************************************************************************)
(* State.                                                                  *)
(***************************************************************************)
VARIABLES
    pc,           \* where the processor is: a foreground location, "dispatch"
                  \* (in isr_common_stub, at the call), "landing" (the call
                  \* returned), "called" (a direct call returned), "halted", "wild"
    iflag,        \* the interrupt flag (RFLAGS.IF)
    regs,         \* the 15 general-purpose registers
    rsp,          \* the stack pointer
    mem,          \* stack memory, one word per 8-byte slot
    seg,          \* [cs, ss]: the segment selectors in use
    TIMER_TICKS,  \* interrupts.rs: static mut TIMER_TICKS
    pic,          \* <<master, slave>> 8259A state
    io,           \* port accesses of the operation in progress or last done
    serial,       \* what that operation wrote to the serial sink
    touched,      \* [rd, wr]: frame fields the dispatcher read and wrote
    via,          \* how the dispatcher was reached: "stub", "call" or "none"
    snap,         \* the machine at the moment the current vector or call was taken
    halts,        \* number of times halt_system has been entered (0 or more)
    nops,         \* operations performed by the controller harness
    result,       \* the port reads of the get_mask calls made since the last
                  \* driver call changed the controller: at most the last one
    op,           \* controller harness: [fn, arg, before], the driver function
                  \* last called, its argument and the controller state it
                  \* started from
    IDT,          \* idt.rs: static mut IDT, 256 descriptors
    IDT_DESCRIPTOR, \* idt.rs: static mut IDT_DESCRIPTOR, [limit, base]
    idtr,         \* the processor's table register, [limit, base]
    idx,          \* idt::init: number of descriptors written so far
    text,         \* address the kernel image is linked at
    pit,          \* 8254 channel 0 state
    selftest      \* test_64bit_interrupts: [initial, timeout, seen, iters, report],
                  \* its initial_ticks and timeout, the current_ticks it last
                  \* read, the iterations begun and the report it ended with

vars == <<pc, iflag, regs, rsp, mem, seg, TIMER_TICKS, pic, io, serial, touched, via,
          snap, halts, nops, result, op, IDT, IDT_DESCRIPTOR, idtr, idx, text, pit, selftest>>
tables == <<IDT, IDT_DESCRIPTOR, idtr, idx, text>>

\* code locations that can be interrupted and returned to
CodeLocs == <<"idle", "halted", "called", "kmain", "idt_fill", "idt_desc", "lidt", "verify",
              "pic_init", "timer_init", "sti", "unmask_timer", "read_ticks", "poll",
              "unmask_kbd", "hcf", "dispatch", "landing", "default_isr">>
Foreground == {"idle"}
PcWord(p) == <<CHOOSE i \in 1..Len(CodeLocs) : CodeLocs[i] = p, 32768, 65535, 65535>>
PcOf(w) ==
    IF \E i \in 1..Len(CodeLocs) : PcWord(CodeLocs[i]) = w
    THEN CodeLocs[CHOOSE i \in 1..Len(CodeLocs) : PcWord(CodeLocs[i]) = w]
    ELSE "wild"

\* register contents of the interrupted code
RegIndex(r) == CHOOSE i \in 1..Len(PushOrder) : PushOrder[i] = r
RegPatterns ==
    { [r \in GPR |-> W(0)],
      [r \in GPR |-> U64_MAX],
      [r \in GPR |-> W(RegIndex(r))],
      [r \in GPR |-> <<100 + RegIndex(r), RegIndex(r), 65535 - RegIndex(r), 32768>>] }

\* error codes the processor may push
ErrCodes == {W(0), W(6), <<16, 1, 0, 0>>}
\* bytes the keyboard data port may return
Scancodes == {0, 30}
\* vector numbers given to the dispatcher that no entry stub pushes
OtherIntNos == {W(48), W(127), W(129), W(255), W(256), <<32, 0, 1, 0>>, U64_MAX}

Chip(imr, base) == [imr |-> imr, isr |-> 0, step |-> 0, base |-> base, ic4 |-> TRUE, sngl |-> FALSE]
PriorMasks == {0, 255, 184}
NoOp == [fn |-> "none", arg |-> 0, before |-> <<Chip(0, 0), Chip(0, 0)>>]

NoSnap == [regs |-> [r \in GPR |-> W(0)], rsp |-> 0, pc |-> "idle", iflag |-> FALSE, vec |-> W(0),
           err |-> W(0), ripAt |-> 0, frame |-> 0, iretAt |-> 0, cpuErr |-> FALSE,
           ticks |-> 0, halts |-> 0]

\* where an image may be linked
LinkedAt == <<4096, 32768, 65535, 65535>>
TextBases == {LinkedAt, <<61440, 16, 0, 0>>}
NoSelfTest == [initial |-> 0, timeout |-> 0, seen |-> 0, iters |-> 0, report |-> "none"]
\* nothing built yet: the table is all zero, the table register is the boot
\* loader's
NoTables ==
    /\ IDT = [v \in 0..(IDT_ENTRIES - 1) |-> ZeroEntry]
    /\ IDT_DESCRIPTOR = [limit |-> 0, base |-> NULL]
    /\ idtr = [limit |-> 0, base |-> NULL]
    /\ idx = 0
    /\ pit = BootPit
    /\ selftest = NoSelfTest

(***************************************************************************)
(* A vector is taken at entry stub isr<v>: the processor pushes its frame  *)
(* and clears IF (every gate is an interrupt gate), the stub pushes the    *)
(* error code and vector number, isr_common_stub saves the registers and   *)
(* reaches the call.                                                       *)
(***************************************************************************)
\* a hardware line being serviced: the chip sets its in-service bit
InService(p, v) ==
    IF v \in 32..39 THEN [p EXCEPT ![1].isr = OrBit(p[1].isr, v - 32)]
    ELSE IF v \in 40..47 THEN [p EXCEPT ![1].isr = OrBit(p[1].isr, 2), ![2].isr = OrBit(p[2].isr, v - 40)]
    ELSE p

Enter(v, err, align, p) ==
    LET s1 == CpuPush([mem |-> mem, rsp |-> rsp], v, err, align, PcWord(pc), iflag, W(seg.cs), W(seg.ss))
        s2 == isr_stub(s1, v)
        s3 == CommonEntry(s2, regs)
    IN /\ mem' = s3.mem
       /\ rsp' = s3.rsp
       /\ regs' = s3.regs
       /\ iflag' = FALSE
       /\ pc' = "dispatch"
       /\ via' = "stub"
       /\ pic' = p
       /\ snap' = [regs |-> regs, rsp |-> rsp, pc |-> pc, iflag |-> iflag, vec |-> W(v),
                   err |-> IF v \in CpuErrorCodeVectors THEN err ELSE W(0),
                   ripAt |-> s1.rsp + (IF v \in CpuErrorCodeVectors THEN 8 ELSE 0),
                   frame |-> Val(s3.regs["rdi"]), iretAt |-> 0,
                   cpuErr |-> v \in CpuErrorCodeVectors,
                   ticks |-> TIMER_TICKS, halts |-> halts]
       /\ io' = <<>>
       /\ serial' = <<>>
       /\ touched' = [rd |-> {}, wr |-> {}]
       /\ UNCHANGED <<seg, TIMER_TICKS, halts, nops, result, op, tables, pit, selftest>>

\* the processor takes vector v here: maskable lines need IF; a halted
\* processor (hlt with IF clear) still takes the non-maskable interrupt
CanTake(v) ==
    \/ pc \in Foreground /\ via = "none" /\ (v \in 32..47 => iflag)
    \/ pc = "halted" /\ halts < MaxHalts /\ (v = 2 \/ (v \in 32..47 /\ iflag))

\* harness: any entry stub, any error code, either stack alignment
EnterStub ==
    \E v \in StubVectors, err \in ErrCodes, align \in BOOLEAN :
        /\ CanTake(v)
        /\ v = 32 => TIMER_TICKS < MaxTicks
        /\ (v \notin CpuErrorCodeVectors => err = W(0))
        /\ (pc = "halted" => align)
        /\ Enter(v, err, align, InService(pic, v))

\* harness: isr_common_handler called directly, with a null frame pointer or
\* with a frame whose int_no no stub pushes
DirectCall ==
    \E n \in OtherIntNos, null \in BOOLEAN :
        LET s1 == PushSeq([mem |-> mem, rsp |-> rsp],
                          <<W(seg.ss), W(rsp), Rflags(iflag), W(seg.cs), PcWord(pc), W(0), n>>)
            s3 == CommonEntry(s1, regs)
        IN /\ pc \in Foreground
           /\ via = "none"
           /\ mem' = s3.mem
           /\ rsp' = s3.rsp
           /\ regs' = [s3.regs EXCEPT !["rdi"] = IF null THEN NULL ELSE @]
           /\ pc' = "dispatch"
           /\ via' = "call"
           /\ snap' = [regs |-> regs, rsp |-> rsp, pc |-> pc, iflag |-> iflag, vec |-> n, err |-> W(0),
                       ripAt |-> s1.rsp + 16, frame |-> IF null THEN 0 ELSE Val(s3.regs["rdi"]),
                       iretAt |-> 0, cpuErr |-> FALSE, ticks |-> TIMER_TICKS, halts |-> halts]
           /\ io' = <<>>
           /\ serial' = <<>>
           /\ touched' = [rd |-> {}, wr |-> {}]
           /\ UNCHANGED <<iflag, seg, TIMER_TICKS, pic, halts, nops, result, op, tables, pit, selftest>>

(***************************************************************************)
(* call isr_common_handler.  On return the callee-saved registers and the  *)
(* stack pointer are as at the call; the caller-saved registers and the    *)
(* stack below the call are whatever the handler left there.               *)
(***************************************************************************)
Clobber(m, sp) == [a \in DOMAIN m |-> IF a < sp THEN JUNK ELSE m[a]]

Dispatch ==
    /\ pc = "dispatch"
    /\ \E sc \in Scancodes :
        LET o == isr_common_handler(regs["rdi"], mem, TIMER_TICKS, sc)
        IN /\ TIMER_TICKS' = o.ticks
           /\ io' = o.io
           /\ pic' = RunIo(pic, o.io)
           /\ serial' = o.serial
           /\ touched' = [rd |-> o.rd, wr |-> o.wr]
           /\ IF o.halt
              THEN /\ pc' = "halted"
                   /\ iflag' = HaltIF(iflag)
                   /\ halts' = halts + 1
                   /\ UNCHANGED <<regs, mem>>
              ELSE /\ pc' = IF via = "stub" THEN "landing" ELSE "called"
                   /\ regs' = [r \in GPR |-> IF r \in CallerSaved THEN JUNK ELSE regs[r]]
                   /\ mem' = Clobber(o.mem, rsp)
                   /\ UNCHANGED <<iflag, halts>>
    /\ UNCHANGED <<rsp, seg, via, snap, nops, result, op, tables, pit, selftest>>

(***************************************************************************)
(* isr_common_stub after the call: restore, discard, iretq.  iretq pops    *)
(* RIP, CS, RFLAGS, RSP and SS.                                            *)
(***************************************************************************)
Landing ==
    /\ pc = "landing"
    /\ LET x == CommonExit(mem, rsp, regs)
       IN /\ regs' = x.regs
          /\ pc' = PcOf(Load(mem, x.rsp))
          /\ iflag' = FlagIF(Load(mem, x.rsp + 16))
          /\ rsp' = Val(Load(mem, x.rsp + 24))
          /\ snap' = [snap EXCEPT !.iretAt = x.rsp]
    /\ UNCHANGED <<mem, seg, TIMER_TICKS, pic, io, serial, touched, via, halts, nops, result, op, tables, pit, selftest>>

\* a direct call returned: the caller drops the frame it built
ReturnDirect ==
    /\ pc = "called"
    /\ pc' = snap.pc
    /\ rsp' = snap.rsp
    /\ UNCHANGED <<iflag, regs, mem, seg, TIMER_TICKS, pic, io, serial, touched, via, snap,
                   halts, nops, result, op, tables, pit, selftest>>

(***************************************************************************)
(* Trampoline and dispatcher harness: from any register contents, either   *)
(* stack alignment and either interrupt-flag state, every entry stub is    *)
(* entered and the dispatcher is called on every kind of frame.            *)
(***************************************************************************)
\* harness: between two vectors the interrupted code runs on: it owns the
\* registers, the flag and its stack, and the record of the last handler
\* invocation is dropped
ForegroundRuns ==
    /\ pc \in Foreground
    /\ via # "none"
    /\ iflag' \in BOOLEAN
    /\ regs' \in RegPatterns
    /\ rsp' \in {StackTop, StackTop - 8}
    /\ mem' = [a \in StackAddrs |-> W(0)]
    /\ via' = "none"
    /\ snap' = NoSnap
    /\ io' = <<>>
    /\ serial' = <<>>
    /\ touched' = [rd |-> {}, wr |-> {}]
    /\ UNCHANGED <<pc, seg, TIMER_TICKS, pic, halts, nops, result, op, tables, pit, selftest>>

TrampInit ==
    /\ pc = "idle"
    /\ iflag \in BOOLEAN
    /\ regs \in RegPatterns
    /\ rsp \in {StackTop, StackTop - 8}
    /\ mem = [a \in StackAddrs |-> W(0)]
    /\ seg = [cs |-> 40, ss |-> 48]
    /\ TIMER_TICKS = 0
    /\ pic = <<Chip(252, 32), Chip(255, 40)>>
    /\ io = <<>>
    /\ serial = <<>>
    /\ touched = [rd |-> {}, wr |-> {}]
    /\ via = "none"
    /\ snap = NoSnap
    /\ halts = 0
    /\ nops = 0
    /\ result = <<>>
    /\ op = NoOp
    /\ NoTables
    /\ text = LinkedAt

TrampNext == EnterStub \/ DirectCall \/ Dispatch \/ Landing \/ ReturnDirect \/ ForegroundRuns

TrampSpec == TrampInit /\ [][TrampNext]_vars

(***************************************************************************)
(* Controller driver harness: from any prior mask state, MaxOps driver     *)
(* calls with any arguments, one after the other.                          *)
(***************************************************************************)
DriverCall(fn, arg, evs) ==
    /\ pc = "idle"
    /\ nops < MaxOps
    /\ io' = evs
    /\ pic' = RunIo(pic, evs)
    /\ op' = [fn |-> fn, arg |-> arg, before |-> pic]
    /\ nops' = nops + 1
    /\ result' = <<>>
    /\ UNCHANGED <<pc, iflag, regs, rsp, mem, seg, TIMER_TICKS, serial, touched, via, snap,
                   halts, tables, pit, selftest>>

PicInitOp == DriverCall("init", 0, pic_init(pic))
SendEoiOp == \E irq \in 0..15 : DriverCall("send_eoi", irq, send_eoi(irq))
UnmaskOp == \E irq \in 0..15 : DriverCall("unmask_irq", irq, unmask_irq(pic, irq))
MaskOp == \E irq \in 0..15 : DriverCall("mask_irq", irq, mask_irq(pic, irq))
\* unmask_irq(irq), then mask_irq(irq) on the state the first call left
UnmaskThenMaskOp ==
    \E irq \in 0..15 :
        LET first == unmask_irq(pic, irq)
        IN DriverCall("unmask_then_mask", irq, first \o mask_irq(RunIo(pic, first), irq))
GetMaskOp ==
    \E slave \in BOOLEAN :
        /\ pc = "idle"
        /\ result' = <<In(IF slave THEN PIC2_DATA ELSE PIC1_DATA, get_mask(pic, slave))>>
        /\ UNCHANGED <<pc, iflag, regs, rsp, mem, seg, TIMER_TICKS, pic, io, serial, touched, via,
                       snap, halts, nops, op, tables, pit, selftest>>

PicHarnessInit ==
    /\ pc = "idle"
    /\ iflag = FALSE
    /\ regs = [r \in GPR |-> W(0)]
    /\ rsp = StackTop
    /\ mem = [a \in StackAddrs |-> W(0)]
    /\ seg = [cs |-> 40, ss |-> 48]
    /\ TIMER_TICKS = 0
    /\ \E m1 \in PriorMasks, m2 \in PriorMasks : pic = <<Chip(m1, 8), Chip(m2, 112)>>
    /\ io = <<>>
    /\ serial = <<>>
    /\ touched = [rd |-> {}, wr |-> {}]
    /\ via = "none"
    /\ snap = NoSnap
    /\ halts = 0
    /\ nops = 0
    /\ result = <<>>
    /\ op = NoOp
    /\ NoTables
    /\ text = LinkedAt

PicNext == PicInitOp \/ SendEoiOp \/ UnmaskOp \/ MaskOp \/ UnmaskThenMaskOp \/ GetMaskOp

PicSpec == PicHarnessInit /\ [][PicNext]_vars

(***************************************************************************)
(* Timer driver harness: timer::init with any frequency above zero.        *)
(***************************************************************************)
Frequencies == (1..MaxFreq) \cup {1000, 65535, PIT_FREQ, PIT_FREQ + 1, 2000000}

TimerInitOp ==
    \E f \in Frequencies :
        /\ pc = "idle"
        /\ nops < MaxOps
        /\ io' = timer_init(f)
        /\ pit' = RunPit(pit, timer_init(f))
        /\ serial' = timer_init_serial(f)
        /\ op' = [fn |-> "timer_init", arg |-> f, before |-> pic]
        /\ nops' = nops + 1
        /\ UNCHANGED <<pc, iflag, regs, rsp, mem, seg, TIMER_TICKS, pic, touched, via, snap,
                       halts, result, tables, selftest>>

\* timer::get_uptime_ms and get_uptime_seconds
get_uptime_ms_PerSecond(t) == t * 1000
get_uptime_ms(t) == t * 10
get_uptime_seconds(t) == t \div 100

\* the uptime queries, asked at any time after timer::init
UptimeQuery(fn, value) ==
    /\ pc = "idle"
    /\ op.fn \in {"timer_init", "get_uptime_ms", "get_uptime_seconds"}
    /\ op' = [op EXCEPT !.fn = fn]
    /\ result' = <<value>>
    /\ io' = <<>>
    /\ serial' = <<>>
    /\ UNCHANGED <<pc, iflag, regs, rsp, mem, seg, TIMER_TICKS, pic, touched, via, snap,
                   halts, nops, tables, pit, selftest>>
UptimeMsOp == UptimeQuery("get_uptime_ms", get_uptime_ms(TIMER_TICKS))
UptimeSecondsOp == UptimeQuery("get_uptime_seconds", get_uptime_seconds(TIMER_TICKS))

\* tick counts at which the harness starts
TickCounts == {0, 1, 99, 100, 250}

TimerHarnessInit ==
    /\ pc = "idle"
    /\ iflag = FALSE
    /\ regs = [r \in GPR |-> W(0)]
    /\ rsp = StackTop
    /\ mem = [a \in StackAddrs |-> W(0)]
    /\ seg = [cs |-> 40, ss |-> 48]
    /\ TIMER_TICKS \in TickCounts
    /\ pic = <<Chip(255, 32), Chip(255, 40)>>
    /\ io = <<>>
    /\ serial = <<>>
    /\ touched = [rd |-> {}, wr |-> {}]
    /\ via = "none"
    /\ snap = NoSnap
    /\ halts = 0
    /\ nops = 0
    /\ result = <<>>
    /\ op = NoOp
    /\ NoTables
    /\ text = LinkedAt

TimerNext == TimerInitOp \/ UptimeMsOp \/ UptimeSecondsOp

TimerSpec == TimerHarnessInit /\ [][TimerNext]_vars

\* timer::init: pit_freq / freq_hz is an integer division, which panics
\* ("attempt to divide by zero") when the divisor operand is zero
DividesByZero(freq_hz) == freq_hz = 0

\* timer::init(0): the division panics before the check, the log and the
\* port writes; control goes to the panic handler and never comes back
TimerInitZero ==
    \E f \in {0} :
        /\ pc = "idle"
        /\ nops < MaxOps
        /\ DividesByZero(f)
        /\ pc' = "panic"
        /\ io' = <<>>
        /\ serial' = <<>>
        /\ op' = [fn |-> "timer_init", arg |-> f, before |-> pic]
        /\ nops' = nops + 1
        /\ UNCHANGED <<iflag, regs, rsp, mem, seg, TIMER_TICKS, pic, touched, via, snap,
                       halts, result, tables, pit, selftest>>

\* timer::init with any 32-bit frequency
FreqNext == TimerNext \/ TimerInitZero

FreqSpec == TimerHarnessInit /\ [][FreqNext]_vars

(***************************************************************************)
(* Diagnostic report harness: handle_cpu_exception_64 writes its report    *)
(* for any exception vector and any fault code.                            *)
(***************************************************************************)
FaultCodes ==
    { <<c, h, 0, 0>> : c \in 0..MaxFaultCode, h \in {0, 1} }
    \cup { <<0, 0, 1, 0>>, <<6, 0, 0, 32768>>, U64_MAX }

ReportOp ==
    \E v \in 0..31, err \in FaultCodes :
        /\ pc = "idle"
        /\ nops < MaxOps
        /\ serial' = handle_cpu_exception_64(v, err)
        /\ op' = [fn |-> "report", arg |-> v, before |-> pic]
        /\ result' = <<err>>
        /\ nops' = nops + 1
        /\ UNCHANGED <<pc, iflag, regs, rsp, mem, seg, TIMER_TICKS, pic, io, touched, via, snap,
                       halts, tables, pit, selftest>>

ReportNext == ReportOp

ReportSpec == TimerHarnessInit /\ [][ReportNext]_vars

(***************************************************************************)
(* IdtEntry::set_handler on its own, for handler addresses anywhere in the *)
(* 64-bit space.                                                           *)
(***************************************************************************)
HandlerAddresses == { <<a, b, c, d>> : a \in {0, 1, 65535}, b \in {0, 32768, 65535},
                                       c \in {0, 1, 65535}, d \in {0, 32768, 65535} }

SetHandlerOp ==
    \E handler \in HandlerAddresses, selector \in {8, 40}, flags \in {INTERRUPT_GATE, 0} :
        /\ pc = "idle"
        /\ nops < MaxOps
        /\ result' = <<set_handler(handler, selector, flags)>>
        /\ op' = [fn |-> "set_handler", arg |-> handler, before |-> pic]
        /\ nops' = nops + 1
        /\ UNCHANGED <<pc, iflag, regs, rsp, mem, seg, TIMER_TICKS, pic, io, serial, touched, via,
                       snap, halts, tables, pit, selftest>>

EncodeNext == SetHandlerOp

EncodeSpec == TimerHarnessInit /\ [][EncodeNext]_vars

(***************************************************************************)
(* The kernel-internal panic entry points (os_int_handler/src/panic.rs),   *)
(* called from code that runs with either interrupt flag.                  *)
(***************************************************************************)
Subsystems == {"memory", "scheduler", "assertion"}
Reasons == {"out of frames", "run queue empty", "x > 0", ""}

\* kernel_panic: the tagged line written before panic!()
kernel_panic(subsystem, reason) == <<"KERNEL PANIC in ", subsystem, ": ", reason, "\n">>
\* the message of its panic!(): "Kernel subsystem failure: {}: {}"
PanicMessage(subsystem, reason) == <<"Kernel subsystem failure: ", subsystem, ": ", reason>>
\* panic_handler: what it writes between its cli and halt_system()
panic_handler(message) ==
    <<"KERNEL PANIC OCCURRED!", "Panic Location:", "Panic Message: ">> \o message
    \o <<"Register Dump:", "Interrupts: DISABLED", "CPU: HALTED", "Restart required.">>
\* panic_handler's first instruction, cli; its halt_system is a bare hlt loop
PanicCli_Missing(if) == if
PanicCli(if) == FALSE

\* a call of kernel_panic, or of kernel_assert with a false condition
PanicCall(fn, subsystem, reason) ==
    /\ pc = "idle"
    /\ nops < MaxOps
    /\ serial' = kernel_panic(subsystem, reason)
    /\ pc' = "panic"
    /\ op' = [fn |-> fn, arg |-> <<subsystem, reason>>, before |-> pic]
    /\ snap' = [snap EXCEPT !.iflag = iflag]
    /\ nops' = nops + 1
    /\ UNCHANGED <<iflag, regs, rsp, mem, seg, TIMER_TICKS, pic, io, touched, via, halts,
                   tables, pit, selftest>>

KernelPanicOp ==
    \E subsystem \in Subsystems, reason \in Reasons :
        /\ PanicCall("kernel_panic", subsystem, reason)
        /\ result' = <<>>

\* kernel_assert!(condition, message)
KernelAssertOp ==
    \E condition \in BOOLEAN, message \in Reasons :
        /\ result' = <<condition>>
        /\ IF condition
           THEN /\ pc = "idle"
                /\ nops < MaxOps
                /\ op' = [fn |-> "kernel_assert", arg |-> <<"assertion", message>>, before |-> pic]
                /\ nops' = nops + 1
                /\ UNCHANGED <<pc, iflag, regs, rsp, mem, seg, TIMER_TICKS, pic, io, serial,
                               touched, via, snap, halts, tables, pit, selftest>>
           ELSE PanicCall("kernel_assert", "assertion", message)

\* panic!() arrives in panic_handler: cli, the report, halt_system
PanicHandler ==
    /\ pc = "panic"
    /\ iflag' = PanicCli(iflag)
    /\ serial' = serial \o panic_handler(PanicMessage(op.arg[1], op.arg[2]))
    /\ pc' = "halted"
    /\ halts' = halts + 1
    /\ UNCHANGED <<regs, rsp, mem, seg, TIMER_TICKS, pic, io, touched, via, snap, nops, result,
                   op, tables, pit, selftest>>

PanicInit ==
    /\ pc = "idle"
    /\ iflag \in BOOLEAN
    /\ regs = [r \in GPR |-> W(0)]
    /\ rsp = StackTop
    /\ mem = [a \in StackAddrs |-> W(0)]
    /\ seg = [cs |-> 40, ss |-> 48]
    /\ TIMER_TICKS \in TickCounts
    /\ pic = <<Chip(255, 32), Chip(255, 40)>>
    /\ io = <<>>
    /\ serial = <<>>
    /\ touched = [rd |-> {}, wr |-> {}]
    /\ via = "none"
    /\ snap = NoSnap
    /\ halts = 0
    /\ nops = 0
    /\ result = <<>>
    /\ op = NoOp
    /\ NoTables
    /\ text = LinkedAt

PanicNext == KernelPanicOp \/ KernelAssertOp \/ PanicHandler

PanicSpec == PanicInit /\ [][PanicNext]_vars

(***************************************************************************)
(* The kernel: kmain (main.rs) from its cli to hcf, with interrupts        *)
(* delivered through the descriptor table the processor has loaded.        *)
(***************************************************************************)
\* code segment selectors the boot loader may hand over
BootSelectors == {8, 40}

KernelLocs == {"kmain", "idt_fill", "idt_desc", "lidt", "verify", "pic_init", "timer_init",
               "sti", "unmask_timer", "read_ticks", "poll", "unmask_kbd", "hcf"}
AfterIdtInit == {"verify", "pic_init", "timer_init", "sti", "unmask_timer", "read_ticks", "poll",
                 "unmask_kbd", "hcf"}

\* a foreground step of kmain from location l to location n
Step(l, n, evs, out) ==
    /\ pc = l
    /\ pc' = n
    /\ io' = evs
    /\ pic' = RunIo(pic, evs)
    /\ pit' = RunPit(pit, evs)
    /\ serial' = out
    /\ UNCHANGED <<regs, rsp, mem, seg, TIMER_TICKS, touched, via, snap, halts, nops, result, op,
                   text, selftest>>

Cli_Skipped ==
    /\ Step("kmain", "idt_fill", <<>>, <<"Step 1: Disabling interrupts (CLI)...">>)
    /\ UNCHANGED <<iflag, IDT, IDT_DESCRIPTOR, idtr, idx>>
\* main.rs: asm!("cli")
Cli ==
    /\ Step("kmain", "idt_fill", <<>>, <<"Step 1: Disabling interrupts (CLI)...">>)
    /\ iflag' = FALSE
    /\ UNCHANGED <<IDT, IDT_DESCRIPTOR, idtr, idx>>

\* a fill loop that writes trap gates (type 0xF), which leave IF as it is
IdtFill_TrapGates ==
    /\ idx < IDT_ENTRIES
    /\ Step("idt_fill", IF idx + 1 = IDT_ENTRIES THEN "idt_desc" ELSE "idt_fill", <<>>, <<>>)
    /\ IDT' = [IDT EXCEPT ![idx] = set_handler(AssignedHandler(text, idx), seg.cs,
                                               INTERRUPT_GATE + 1)]
    /\ idx' = idx + 1
    /\ UNCHANGED <<iflag, IDT_DESCRIPTOR, idtr>>

\* a fill loop that stops one descriptor short of the table's end
IdtFill_OneShort ==
    /\ idx < IDT_ENTRIES
    /\ Step("idt_fill", IF idx + 2 = IDT_ENTRIES THEN "idt_desc" ELSE "idt_fill", <<>>, <<>>)
    /\ IDT' = [IDT EXCEPT ![idx] = set_handler(AssignedHandler(text, idx), seg.cs,
                                               INTERRUPT_GATE)]
    /\ idx' = idx + 1
    /\ UNCHANGED <<iflag, IDT_DESCRIPTOR, idtr>>

\* idt::init: one set_handler call
IdtFill ==
    /\ idx < IDT_ENTRIES
    /\ Step("idt_fill", IF idx + 1 = IDT_ENTRIES THEN "idt_desc" ELSE "idt_fill", <<>>, <<>>)
    /\ IDT' = [IDT EXCEPT ![idx] = set_handler(AssignedHandler(text, idx), seg.cs,
                                               INTERRUPT_GATE)]
    /\ idx' = idx + 1
    /\ UNCHANGED <<iflag, IDT_DESCRIPTOR, idtr>>

\* idt::init: IDT_DESCRIPTOR.limit and .base
IdtDescribe ==
    /\ Step("idt_desc", "lidt", <<>>, <<"64-bit IDT base: 0x">>)
    /\ IDT_DESCRIPTOR' = [limit |-> IdtLimit, base |-> AddrOfIDT(text)]
    /\ UNCHANGED <<iflag, IDT, idtr, idx>>

\* the two bytes of a 16-bit word, low byte first
Le16(w) == <<w % 256, w \div 256>>
\* struct IdtDescriptor in memory: repr(C, packed), limit at offset 0 and
\* base at offset 2, both little-endian
DescriptorBytes_Padded(d) ==
    Le16(d.limit) \o <<0, 0, 0, 0, 0, 0>> \o Le16(d.base[1]) \o Le16(d.base[2])
    \o Le16(d.base[3]) \o Le16(d.base[4])
DescriptorBytes(d) ==
    Le16(d.limit) \o Le16(d.base[1]) \o Le16(d.base[2]) \o Le16(d.base[3]) \o Le16(d.base[4])
\* lidt: the processor loads limit and base from the ten bytes at its operand
lidt(bytes) ==
    [limit |-> bytes[1] + 256 * bytes[2],
     base  |-> <<bytes[3] + 256 * bytes[4], bytes[5] + 256 * bytes[6],
                 bytes[7] + 256 * bytes[8], bytes[9] + 256 * bytes[10]>>]
\* sidt: the processor stores the register as ten bytes
sidt(r) == Le16(r.limit) \o Le16(r.base[1]) \o Le16(r.base[2]) \o Le16(r.base[3]) \o Le16(r.base[4])
\* idt::init: rb_limit = u16::from_le_bytes(readback[0..2]) and rb_base =
\* u64::from_le_bytes(readback[2..10])
Readback(rb) ==
    [limit |-> rb[1] + 256 * rb[2],
     base  |-> <<rb[3] + 256 * rb[4], rb[5] + 256 * rb[6], rb[7] + 256 * rb[8],
                 rb[9] + 256 * rb[10]>>]

\* idt::init: lidt, then the sidt read-back, kept in result, and return
Lidt ==
    /\ pc = "lidt"
    /\ pc' = "verify"
    /\ idtr' = lidt(DescriptorBytes(IDT_DESCRIPTOR))
    /\ result' = <<Readback(sidt(idtr'))>>
    /\ io' = <<>>
    /\ serial' = <<"IDT readback - base: 0x", "64-bit IDT loaded successfully">>
    /\ UNCHANGED <<iflag, regs, rsp, mem, seg, TIMER_TICKS, pic, touched, via, snap, halts, nops,
                   op, IDT, IDT_DESCRIPTOR, idx, text, pit, selftest>>

\* main.rs: verify_idt_entries_64bit
VerifyIdt ==
    /\ Step("verify", "pic_init", <<>>,
            IF Readback(sidt(idtr)).base # NULL /\ Readback(sidt(idtr)).limit = 4095
            THEN <<"64-bit IDT appears loaded correctly">>
            ELSE <<"WARNING: 64-bit IDT may not be loaded correctly!">>)
    /\ UNCHANGED <<iflag, IDT, IDT_DESCRIPTOR, idtr, idx>>

\* main.rs: pic::init()
PicInitStep ==
    /\ Step("pic_init", "timer_init", pic_init(pic), <<"PIC remapped for 64-bit operation">>)
    /\ UNCHANGED <<iflag, IDT, IDT_DESCRIPTOR, idtr, idx>>

\* main.rs: timer::init(100)
TimerInitStep ==
    /\ Step("timer_init", "sti", timer_init(100),
            timer_init_serial(100) \o <<"64-bit timer initialized at 100Hz">>)
    /\ UNCHANGED <<iflag, IDT, IDT_DESCRIPTOR, idtr, idx>>

\* test_64bit_interrupts: asm!("sti")
Sti ==
    /\ Step("sti", "unmask_timer", <<>>, <<>>)
    /\ iflag' = TRUE
    /\ UNCHANGED <<IDT, IDT_DESCRIPTOR, idtr, idx>>

\* test_64bit_interrupts: pic::unmask_irq(0)
UnmaskTimer ==
    /\ Step("unmask_timer", "read_ticks", unmask_irq(pic, 0), <<"64-bit PIC: Unmasked IRQ">>)
    /\ UNCHANGED <<iflag, IDT, IDT_DESCRIPTOR, idtr, idx>>

\* timer::get_ticks: the counter as the caller's load finds it
get_ticks_Zero(t) == 0
get_ticks(t) == t

\* a step of the self-test that touches no port
Quiet(l, n, out) ==
    /\ pc = l
    /\ pc' = n
    /\ io' = <<>>
    /\ serial' = out
    /\ UNCHANGED <<iflag, regs, rsp, mem, seg, TIMER_TICKS, pic, touched, via, snap, halts, nops,
                   result, op, tables, pit>>

\* test_64bit_interrupts: initial_ticks = timer::get_ticks(), timeout = 0
ReadInitialTicks ==
    /\ Quiet("read_ticks", "poll", <<"Testing 64-bit timer interrupts...", "Initial ticks: ">>)
    /\ selftest' = [NoSelfTest EXCEPT !.initial = get_ticks(TIMER_TICKS),
                                      !.seen = get_ticks(TIMER_TICKS)]

\* test_64bit_interrupts: the loop's two exits
TARGET_TICKS == 10
TIMEOUT_LIMIT == 1000000
PollSucceeded_Strict(current, target) == current > target
PollSucceeded(current, target) == current >= target
PollTimedOut(timeout) == timeout > TIMEOUT_LIMIT
SelfTestSuccess == "64-bit timer interrupts working! Final ticks: "
SelfTestTimeout == "TIMEOUT: No 64-bit timer interrupts received"

\* iterations in one stretch: the loop's longest run cut in MaxPollRuns,
\* and never past the iteration that takes the timeout exit
PollStretch(timeout) ==
    LET whole == (TIMEOUT_LIMIT + MaxPollRuns) \div MaxPollRuns
        left  == TIMEOUT_LIMIT + 1 - timeout
    IN IF whole < left THEN whole ELSE left

\* test_64bit_interrupts: the loop.  With current_ticks at the target the
\* iteration reports success and leaves; otherwise a stretch of iterations
\* runs with no interrupt in between, each adding one to timeout, and the
\* one that takes timeout above the limit reports the timeout and leaves
Poll ==
    /\ pc = "poll"
    /\ IF PollSucceeded(get_ticks(TIMER_TICKS), selftest.initial + TARGET_TICKS)
       THEN /\ selftest' = [selftest EXCEPT !.seen = get_ticks(TIMER_TICKS), !.iters = @ + 1,
                                            !.report = "success"]
            /\ Quiet("poll", "unmask_kbd", <<SelfTestSuccess>>)
       ELSE LET k == PollStretch(selftest.timeout)
                t == selftest.timeout + k
            IN /\ selftest' = [selftest EXCEPT !.seen = get_ticks(TIMER_TICKS), !.iters = @ + k,
                                               !.timeout = t,
                                               !.report = IF PollTimedOut(t) THEN "timeout"
                                                          ELSE @]
               /\ IF PollTimedOut(t)
                  THEN Quiet("poll", "unmask_kbd", <<SelfTestTimeout>>)
                  ELSE Quiet("poll", "poll", <<>>)

\* test_64bit_interrupts: pic::unmask_irq(1) and the return, which ends the
\* life of the function's variables; then in kmain the last message and
\* hcf()
UnmaskKeyboard ==
    /\ pc = "unmask_kbd"
    /\ pc' = "hcf"
    /\ io' = unmask_irq(pic, 1)
    /\ pic' = RunIo(pic, unmask_irq(pic, 1))
    /\ serial' = <<"64-bit PIC: Unmasked IRQ", "64-bit interrupt system fully operational">>
    /\ selftest' = NoSelfTest
    /\ UNCHANGED <<iflag, regs, rsp, mem, seg, TIMER_TICKS, touched, via, snap, halts, nops,
                   result, op, tables, pit>>

\* the descriptor the processor finds for vector v, once the kernel's
\* table is the one loaded
TableLoaded == idtr.base = AddrOfIDT(text)
GateOk(v) ==
    /\ TableLoaded
    /\ IdtEntrySize * v + IdtEntrySize - 1 <= idtr.limit
    /\ GatePresent(IDT[v])
    /\ IDT[v].selector = seg.cs
StubAt(a) == {w \in StubVectors : (IF w = 128 THEN isr128(text) ELSE isr(text, w)) = a}

\* the 8259A pair raises line l: the line is unmasked, the chips are
\* initialised and no line of the same or higher priority is in service
LineDeliverable(p, l) ==
    /\ p[1].step = 0 /\ p[2].step = 0
    /\ IF l < 8
       THEN Bit(p[1].imr, l) = 0 /\ \A k \in 0..l : Bit(p[1].isr, k) = 0
       ELSE /\ Bit(p[2].imr, l - 8) = 0 /\ Bit(p[1].imr, 2) = 0
            /\ \A k \in 0..2 : Bit(p[1].isr, k) = 0
            /\ \A k \in 0..(l - 8) : Bit(p[2].isr, k) = 0
LineVector(p, l) == IF l < 8 THEN p[1].base + l ELSE p[2].base + (l - 8)
LineInService(p, l) ==
    IF l < 8 THEN [p EXCEPT ![1].isr = OrBit(p[1].isr, l)]
    ELSE [p EXCEPT ![1].isr = OrBit(p[1].isr, 2), ![2].isr = OrBit(p[2].isr, l - 8)]

\* a device line interrupts the kernel, which runs in long mode
TakeIrq ==
    \E l \in 0..15 :
        LET v == LineVector(pic, l) IN
        /\ pc \in KernelLocs
        /\ iflag
        /\ LineDeliverable(pic, l)
        /\ l = 0 => TIMER_TICKS < MaxBootTicks
        /\ GateOk(v)
        /\ \E w \in StubAt(HandlerAddress(IDT[v])) : Enter(w, W(0), TRUE, LineInService(pic, l))
        /\ UNCHANGED <<tables, pit, selftest>>

\* vectors of the range idt::init fills in its closing loop
TrapVectors == {48, 128, 255}

\* the processor enters default_isr through its interrupt gate: it pushes
\* SS, RSP, RFLAGS, CS and RIP, clears IF and jumps to the function
EnterDefault(v) ==
    LET s1 == CpuPush([mem |-> mem, rsp |-> rsp], v, W(0), TRUE, PcWord(pc), iflag, W(seg.cs),
                      W(seg.ss))
    IN /\ mem' = s1.mem
       /\ rsp' = s1.rsp
       /\ iflag' = FALSE
       /\ pc' = "default_isr"
       /\ via' = "default"
       /\ snap' = [regs |-> regs, rsp |-> rsp, pc |-> pc, iflag |-> iflag, vec |-> W(v),
                   err |-> W(0), ripAt |-> s1.rsp, frame |-> 0, iretAt |-> 0, cpuErr |-> FALSE,
                   ticks |-> TIMER_TICKS, halts |-> halts]
       /\ io' = <<>>
       /\ serial' = <<>>
       /\ touched' = [rd |-> {}, wr |-> {}]
       /\ nops' = nops + 1
       /\ UNCHANGED <<regs, seg, TIMER_TICKS, pic, halts, result, op, tables, pit, selftest>>

\* a vector of 48..255 fires while the kernel idles in hcf: the processor
\* enters whatever its descriptor names, an entry stub or default_isr
TakeTrap ==
    \E v \in TrapVectors :
        /\ pc = "hcf"
        /\ GateOk(v)
        /\ \/ \E w \in StubAt(HandlerAddress(IDT[v])) : Enter(w, W(0), TRUE, pic)
           \/ /\ HandlerAddress(IDT[v]) = default_isr(text)
              /\ nops < MaxTraps
              /\ EnterDefault(v)

DefaultIsr_Iretq ==
    /\ pc = "default_isr"
    /\ serial' = <<"[DEFAULT_64BIT_ISR]">>
    /\ io' = <<>>
    /\ regs' = regs
    /\ mem' = Clobber(mem, rsp)
    /\ pc' = PcOf(Load(mem, rsp))
    /\ iflag' = FlagIF(Load(mem, rsp + 16))
    /\ rsp' = Val(Load(mem, rsp + 24))
    /\ UNCHANGED <<seg, TIMER_TICKS, pic, touched, via, snap, halts, nops, result, op,
                   tables, pit, selftest>>
\* idt::init's default_isr, an extern "C" function: it writes its message
\* and returns with ret, which pops the word on top of the stack (the RIP
\* the processor pushed) and nothing else; whether its body overwrote the
\* caller-saved registers is the compiler's choice
DefaultIsr ==
    /\ pc = "default_isr"
    /\ serial' = <<"[DEFAULT_64BIT_ISR]">>
    /\ io' = <<>>
    /\ \E kept \in BOOLEAN :
           regs' = [r \in GPR |-> IF r \in CallerSaved /\ ~kept THEN JUNK ELSE regs[r]]
    /\ mem' = Clobber(mem, rsp)
    /\ pc' = PcOf(Load(mem, rsp))
    /\ rsp' = rsp + 8
    /\ UNCHANGED <<iflag, seg, TIMER_TICKS, pic, touched, via, snap, halts, nops, result, op,
                   tables, pit, selftest>>

\* code of a handler that was entered from the kernel's own code
HandlerLocs == {"dispatch", "landing", "default_isr"}

\* the non-maskable interrupt or a machine check arrives: neither is held
\* back by IF, so either can arrive in a handler as well
TakeException ==
    \E v \in {2, 18} :
        /\ \/ pc \in KernelLocs
           \/ pc \in HandlerLocs /\ snap.pc \in KernelLocs /\ v = 2
           \/ pc = "halted" /\ halts < MaxHalts /\ v = 2
        /\ GateOk(v)
        /\ \E w \in StubAt(HandlerAddress(IDT[v])) : Enter(w, W(0), TRUE, pic)
        /\ UNCHANGED <<tables, pit, selftest>>

Init ==
    /\ pc = "kmain"
    /\ iflag \in BOOLEAN
    /\ regs = [r \in GPR |-> W(RegIndex(r))]
    /\ rsp = StackTop
    /\ mem = [a \in StackAddrs |-> W(0)]
    /\ \E cs \in BootSelectors : seg = [cs |-> cs, ss |-> 48]
    /\ TIMER_TICKS = 0
    /\ \E m \in PriorMasks : pic = <<Chip(m, 8), Chip(m, 112)>>
    /\ io = <<>>
    /\ serial = <<>>
    /\ touched = [rd |-> {}, wr |-> {}]
    /\ via = "none"
    /\ snap = NoSnap
    /\ halts = 0
    /\ nops = 0
    /\ result = <<>>
    /\ op = NoOp
    /\ NoTables
    /\ text \in TextBases
    /\ text = LinkedAt <=> seg.cs = 8

Next ==
    \/ Cli \/ IdtFill \/ IdtDescribe \/ Lidt \/ VerifyIdt \/ PicInitStep \/ TimerInitStep
    \/ Sti \/ UnmaskTimer \/ ReadInitialTicks \/ Poll \/ UnmaskKeyboard
    \/ TakeIrq \/ TakeException \/ TakeTrap \/ DefaultIsr \/ Dispatch \/ Landing

Spec == Init /\ [][Next]_vars

(***************************************************************************)
(* The controller pair and the dispatcher, line by line: a device raises a *)
(* line the chips can deliver, the chips put it in service, and the        *)
(* dispatcher runs on its vector with IF clear and returns.  The timer     *)
(* device raises its line again and again, and the handler, once entered,  *)
(* runs on.                                                                *)
(***************************************************************************)
\* a frame as the entry stub of vector v builds it
FrameOf(v) == Store([a \in StackAddrs |-> W(0)], 8 + FieldOffset("int_no"), W(v))

LineRaised ==
    \E l \in 0..15 :
        /\ pc = "idle"
        /\ LineDeliverable(pic, l)
        /\ l = 0 => TIMER_TICKS < MaxBootTicks
        /\ pic' = LineInService(pic, l)
        /\ pc' = "dispatch"
        /\ op' = [fn |-> "irq", arg |-> LineVector(pic, l), before |-> pic]
        /\ io' = <<>>
        /\ serial' = <<>>
        /\ mem' = FrameOf(LineVector(pic, l))
        /\ UNCHANGED <<iflag, regs, rsp, seg, TIMER_TICKS, touched, via, snap, halts, nops,
                       result, tables, pit, selftest>>

LineHandled ==
    /\ pc = "dispatch"
    /\ \E sc \in Scancodes :
        LET o == isr_common_handler(W(8), mem, TIMER_TICKS, sc)
        IN /\ TIMER_TICKS' = o.ticks
           /\ io' = o.io
           /\ pic' = RunIo(pic, o.io)
           /\ serial' = o.serial
           /\ pc' = IF o.halt THEN "halted" ELSE "idle"
    /\ UNCHANGED <<iflag, regs, rsp, mem, seg, touched, via, snap, halts, nops, result, op,
                   tables, pit, selftest>>

\* after pic::init and some unmask_irq calls, line 0 among them
LineMasks == {0, 252, 248}
LineInit ==
    /\ pc = "idle"
    /\ iflag = FALSE
    /\ regs = [r \in GPR |-> W(0)]
    /\ rsp = StackTop
    /\ mem = [a \in StackAddrs |-> W(0)]
    /\ seg = [cs |-> 40, ss |-> 48]
    /\ TIMER_TICKS = 0
    /\ \E m1 \in LineMasks, m2 \in {0, 255} : pic = <<Chip(m1, 32), Chip(m2, 40)>>
    /\ io = <<>>
    /\ serial = <<>>
    /\ touched = [rd |-> {}, wr |-> {}]
    /\ via = "none"
    /\ snap = NoSnap
    /\ halts = 0
    /\ nops = 0
    /\ result = <<>>
    /\ op = NoOp
    /\ NoTables
    /\ text = LinkedAt

LineNext == LineRaised \/ LineHandled
\* the processor takes the timer line
TimerLineTaken == LineRaised /\ op'.arg = 32

LineSpec == LineInit /\ [][LineNext]_vars /\ WF_vars(LineHandled) /\ SF_vars(TimerLineTaken)

(***************************************************************************)
(* unmask_irq and mask_irq in two steps, the read of the mask register and *)
(* the write of the changed value, with interrupts enabled as in           *)
(* test_64bit_interrupts: between the two one handler may run.             *)
(***************************************************************************)
MaskFns == {"unmask_irq", "mask_irq"}
\* the accesses of the call fn(irq) made on the controller state p
MaskAccesses(fn, p, irq) == IF fn = "unmask_irq" THEN unmask_irq(p, irq) ELSE mask_irq(p, irq)

\* in al, dx
MaskRead ==
    \E fn \in MaskFns, irq \in 0..15 :
        /\ pc = "idle"
        /\ nops < MaxOps
        /\ pc' = "masking"
        /\ op' = [fn |-> fn, arg |-> irq, before |-> pic]
        /\ io' = << MaskAccesses(fn, pic, irq)[1] >>
        /\ nops' = nops + 1
        /\ UNCHANGED <<iflag, regs, rsp, mem, seg, TIMER_TICKS, pic, serial, touched, via, snap,
                       halts, result, tables, pit, selftest>>

\* a hardware line is delivered between the read and the write; its
\* handler runs and returns
MaskInterrupted ==
    \E l \in 0..15, sc \in Scancodes :
        LET o == isr_common_handler(W(8), FrameOf(LineVector(pic, l)), TIMER_TICKS, sc)
        IN /\ pc = "masking"
           /\ via = "none"
           /\ iflag
           /\ LineDeliverable(pic, l)
           /\ TIMER_TICKS < MaxTicks
           /\ via' = "stub"
           /\ pic' = RunIo(LineInService(pic, l), o.io)
           /\ TIMER_TICKS' = o.ticks
           /\ result' = <<LineVector(pic, l)>>
           /\ UNCHANGED <<pc, iflag, regs, rsp, mem, seg, io, serial, touched, snap, halts, nops,
                          op, tables, pit, selftest>>

\* out dx, al: the value computed from what the read returned
MaskWrite ==
    /\ pc = "masking"
    /\ pc' = "idle"
    /\ io' = io \o << MaskAccesses(op.fn, op.before, op.arg)[2] >>
    /\ pic' = RunIo(pic, << MaskAccesses(op.fn, op.before, op.arg)[2] >>)
    /\ UNCHANGED <<iflag, regs, rsp, mem, seg, TIMER_TICKS, serial, touched, via, snap, halts,
                   nops, result, op, tables, pit, selftest>>

MaskInit ==
    /\ pc = "idle"
    /\ iflag = TRUE
    /\ regs = [r \in GPR |-> W(0)]
    /\ rsp = StackTop
    /\ mem = [a \in StackAddrs |-> W(0)]
    /\ seg = [cs |-> 40, ss |-> 48]
    /\ TIMER_TICKS = 0
    /\ \E m1 \in {254, 0, 255}, m2 \in {255, 0} : pic = <<Chip(m1, 32), Chip(m2, 40)>>
    /\ io = <<>>
    /\ serial = <<>>
    /\ touched = [rd |-> {}, wr |-> {}]
    /\ via = "none"
    /\ snap = NoSnap
    /\ halts = 0
    /\ nops = 0
    /\ result = <<>>
    /\ op = NoOp
    /\ NoTables
    /\ text = LinkedAt

MaskNext == MaskRead \/ MaskInterrupted \/ MaskWrite

MaskSpec == MaskInit /\ [][MaskNext]_vars

(***************************************************************************)
(* timer::sleep_ticks.  TIMER_TICKS is a plain static and the loop's pause *)
(* is declared nomem, so nothing in the loop tells the compiler that the   *)
(* counter can change: a build may load it again at every test or keep the *)
(* value it loaded before.  Each test takes either.                        *)
(***************************************************************************)
\* the loop's exit test: !((TIMER_TICKS - start) < ticks)
SleepDone_OneEarly(current, start, ticks) == (current - start) + 1 >= ticks
SleepDone(current, start, ticks) == ~((current - start) < ticks)

\* the call: let start = TIMER_TICKS
SleepCall ==
    \E ticks \in 0..(MaxTicks - 1) :
        /\ pc = "idle"
        /\ nops < MaxOps
        /\ pc' = "sleep"
        /\ op' = [fn |-> "sleep_ticks", arg |-> ticks, before |-> pic]
        /\ selftest' = [NoSelfTest EXCEPT !.initial = TIMER_TICKS, !.seen = TIMER_TICKS]
        /\ nops' = nops + 1
        /\ UNCHANGED <<iflag, regs, rsp, mem, seg, TIMER_TICKS, pic, io, serial, touched, via,
                       snap, halts, result, tables, pit>>

\* one test of the loop condition, then the return or the pause
SleepPoll ==
    \E current \in {TIMER_TICKS, selftest.seen} :
        /\ pc = "sleep"
        /\ selftest' = [selftest EXCEPT !.seen = current, !.iters = 1 - @]
        /\ pc' = IF SleepDone(current, selftest.initial, op.arg) THEN "idle" ELSE "sleep"
        /\ UNCHANGED <<iflag, regs, rsp, mem, seg, TIMER_TICKS, pic, io, serial, touched, via,
                       snap, halts, nops, result, op, tables, pit>>

\* the timer interrupts the loop or its caller: handler and return
SleepTick ==
    /\ pc \in {"idle", "sleep"}
    /\ iflag
    /\ LineDeliverable(pic, 0)
    /\ TIMER_TICKS < MaxTicks
    /\ TIMER_TICKS' = TickStep(TIMER_TICKS)
    /\ io' = send_eoi(0)
    /\ UNCHANGED <<pc, iflag, regs, rsp, mem, seg, pic, serial, touched, via, snap, halts, nops,
                   result, op, tables, pit, selftest>>

SleepInit ==
    /\ pc = "idle"
    /\ iflag \in BOOLEAN
    /\ regs = [r \in GPR |-> W(0)]
    /\ rsp = StackTop
    /\ mem = [a \in StackAddrs |-> W(0)]
    /\ seg = [cs |-> 40, ss |-> 48]
    /\ TIMER_TICKS \in {0, 1}
    /\ \E m \in {254, 255} : pic = <<Chip(m, 32), Chip(255, 40)>>
    /\ io = <<>>
    /\ serial = <<>>
    /\ touched = [rd |-> {}, wr |-> {}]
    /\ via = "none"
    /\ snap = NoSnap
    /\ halts = 0
    /\ nops = 0
    /\ result = <<>>
    /\ op = NoOp
    /\ NoTables
    /\ text = LinkedAt

SleepNext == SleepCall \/ SleepPoll \/ SleepTick

SleepSpec == SleepInit /\ [][SleepNext]_vars /\ WF_vars(SleepPoll) /\ WF_vars(SleepTick)

(***************************************************************************)
(* os_interrupts: the five handlers of idt.rs, written in global_asm! and  *)
(* installed by init_idt at vectors 0x80, 33, 32, 14 and 13.  Each saves   *)
(* some registers, calls its extern "C" inner function, restores and       *)
(* executes iretq.  pc is "dispatch" at the call, "landing" after it.      *)
(***************************************************************************)
OsiVectors == {13, 14, 32, 33, 128}

\* the registers each handler pushes before the call, in order
OsiPushes(v) ==
    CASE v = 128 -> <<"rax", "rcx", "rdx", "rsi", "rdi", "r8", "r9", "r10", "r11">>
      [] v = 33  -> <<"rax", "rcx", "rdx">>
      [] v = 14  -> <<"rax", "rcx", "rdx">>
      [] OTHER   -> <<"rax">>
\* the registers each handler pops after the call, in order
OsiPops(v) ==
    CASE v = 128 -> <<"r11", "r10", "r9", "r8", "rdi", "rsi", "rdx", "rcx", "rax">>
      [] v = 33  -> <<"rdx", "rcx", "rax">>
      [] v = 14  -> <<"rdx", "rcx", "rax">>
      [] OTHER   -> <<"rax">>
\* bytes dropped between the call and the pops: page_fault_handler's
\* "add rsp, 8" takes the pushed cr2 off; no handler has another add
OsiDiscard_ErrorCodeToo(v) == IF v = 14 THEN 16 ELSE 0
OsiDiscard(v) == IF v = 14 THEN 8 ELSE 0
\* "mov al, 0x20; out 0x20, al" after the call
OsiEoi(v) == IF v \in {32, 33} THEN << Out(PIC1_COMMAND, PIC_EOI) >> ELSE <<>>

\* a handler up to its call.  [mem, rsp, regs]
OsiEntry(s, r, v, cr2) ==
    LET t == PushSeq(s, [i \in 1..Len(OsiPushes(v)) |-> r[OsiPushes(v)[i]]])
    IN IF v = 14
       THEN [mem |-> Push(t, cr2).mem, rsp |-> Push(t, cr2).rsp, regs |-> [r EXCEPT !["rax"] = cr2]]
       ELSE [mem |-> t.mem, rsp |-> t.rsp, regs |-> r]
\* a handler after its call, up to iretq.  [regs, rsp]
OsiExit(m, sp, r, v) ==
    PopRegs(OsiPops(v), IF OsiEoi(v) # <<>> THEN [r EXCEPT !["rax"] = JUNK] ELSE r, m,
            sp + OsiDiscard(v))

\* caller-saved registers an inner function may have changed on return
ClobberSets == {{}, {"rax", "rcx", "rdx"}, CallerSaved}
\* cr2 at a page fault
FaultAddrs == {W(0), W(4096)}

\* the processor takes vector v and the handler runs up to its call
OsiEnter ==
    \E v \in OsiVectors, err \in ErrCodes, cr2 \in FaultAddrs :
        LET s1 == CpuPush([mem |-> mem, rsp |-> rsp], v, err, TRUE, PcWord(pc), iflag,
                          W(seg.cs), W(seg.ss))
            s2 == OsiEntry(s1, regs, v, cr2)
        IN /\ pc \in Foreground
           /\ via = "none"
           /\ v \in 32..47 => iflag
           /\ v = 32 => TIMER_TICKS < MaxTicks
           /\ v \notin CpuErrorCodeVectors => err = W(0)
           /\ v # 14 => cr2 = W(0)
           /\ mem' = s2.mem
           /\ rsp' = s2.rsp
           /\ regs' = s2.regs
           /\ iflag' = FALSE
           /\ pc' = "dispatch"
           /\ via' = "stub"
           /\ pic' = InService(pic, v)
           /\ snap' = [regs |-> regs, rsp |-> rsp, pc |-> pc, iflag |-> iflag, vec |-> W(v),
                       err |-> IF v \in CpuErrorCodeVectors THEN err ELSE W(0),
                       ripAt |-> s1.rsp + (IF v \in CpuErrorCodeVectors THEN 8 ELSE 0),
                       frame |-> s2.rsp, iretAt |-> 0,
                       cpuErr |-> v \in CpuErrorCodeVectors,
                       ticks |-> TIMER_TICKS, halts |-> halts]
           /\ io' = <<>>
           /\ serial' = <<>>
           /\ result' = <<>>
           /\ UNCHANGED <<seg, TIMER_TICKS, touched, halts, nops, op, tables, pit, selftest>>

\* call <name>_inner: the inner function runs and returns
OsiInner ==
    \E c \in ClobberSets, sc \in Scancodes :
        /\ pc = "dispatch"
        /\ snap.vec # W(33) => sc = 0
        /\ pc' = "landing"
        /\ regs' = [r \in GPR |-> IF r \in c THEN JUNK ELSE regs[r]]
        /\ mem' = Clobber(mem, rsp)
        /\ TIMER_TICKS' = IF snap.vec = W(32) THEN TickStep(TIMER_TICKS) ELSE TIMER_TICKS
        /\ io' = IF snap.vec = W(33) THEN << In(KBD_DATA, sc) >> ELSE <<>>
        /\ result' = <<c>>
        /\ UNCHANGED <<iflag, rsp, seg, pic, serial, touched, via, snap, halts, nops, op, tables,
                       pit, selftest>>

\* the rest of the handler and its iretq
OsiReturn ==
    LET x == OsiExit(mem, rsp, regs, Val(snap.vec))
    IN /\ pc = "landing"
       /\ io' = io \o OsiEoi(Val(snap.vec))
       /\ pic' = RunIo(pic, OsiEoi(Val(snap.vec)))
       /\ regs' = x.regs
       /\ pc' = PcOf(Load(mem, x.rsp))
       /\ iflag' = FlagIF(Load(mem, x.rsp + 16))
       /\ rsp' = Val(Load(mem, x.rsp + 24))
       /\ snap' = [snap EXCEPT !.iretAt = x.rsp]
       /\ UNCHANGED <<mem, seg, TIMER_TICKS, serial, touched, via, halts, nops, result, op, tables,
                      pit, selftest>>

OsiNext == OsiEnter \/ OsiInner \/ OsiReturn \/ ForegroundRuns

OsiSpec == TrampInit /\ [][OsiNext]_vars

(***************************************************************************)
(* Properties of the trampoline and the dispatcher.                        *)
(***************************************************************************)
\* writes to the controller's ports among a sequence of port accesses
IsPicWrite(e) == e[1] = "out" /\ e[2] \in PicPorts
PicWrites(evs) == SelectSeq(evs, IsPicWrite)
CountOut(evs, port, val) ==
    Cardinality({i \in 1..Len(evs) : evs[i] = Out(port, val)})
\* exactly the acknowledgment of a line: the end-of-interrupt command once
\* to the master, once to the slave if and only if withSlave, nothing else
AckOnly(evs, withSlave) ==
    /\ CountOut(evs, PIC1_COMMAND, PIC_EOI) = 1
    /\ CountOut(evs, PIC2_COMMAND, PIC_EOI) = (IF withSlave THEN 1 ELSE 0)
    /\ Len(PicWrites(evs)) = (IF withSlave THEN 2 ELSE 1)

\* the dispatcher has run on the frame recorded in snap
Dispatched == via # "none" /\ pc # "dispatch"
\* the vector number the dispatcher was given is v
SawVector(v) == snap.frame # 0 /\ snap.vec = W(v)
FaultReport == "=== 64-BIT CPU EXCEPTION ==="
InSerial(tag) == \E i \in 1..Len(serial) : serial[i] = tag

\* C1: frame symmetry.  Once the landing sequence has executed iretq for a
\* vector whose frame the dispatcher left unwritten, every general-purpose
\* register holds its value at entry, iretq executed with the stack pointer
\* on the processor-pushed RIP, which lies exactly 16 bytes (vector number
\* and fault code) above the 15 saved registers, and the interrupted code
\* resumes where it was with its own stack pointer.
C1_FrameSymmetry ==
    (via = "stub" /\ snap.iretAt # 0 /\ touched.wr = {}) =>
        /\ regs = snap.regs
        /\ snap.iretAt = snap.ripAt
        /\ snap.iretAt = snap.frame + 8 * Len(PushOrder) + 16
        /\ rsp = snap.rsp
        /\ pc = snap.pc

\* a slave-line vector returned to code whose registers were all ones and
\* whose frame was not 16-byte aligned
C1_Witness ==
    /\ via = "stub" /\ snap.iretAt # 0 /\ touched.wr = {}
    /\ snap.vec = W(47)
    /\ \A r \in GPR : snap.regs[r] = U64_MAX
    /\ snap.frame % 16 = 8

\* C2: at the call of the dispatcher from entry stub v, the frame's int_no
\* is v, its err_code is the processor's error code (0 for a vector that
\* has none), exactly two words separate the saved registers from the
\* processor-pushed frame, and the stub pushed a dummy code exactly when
\* the processor pushed none.
C2_StubFrame ==
    (pc = "dispatch" /\ via = "stub") =>
        /\ Field(mem, W(snap.frame), "int_no") = snap.vec
        /\ Field(mem, W(snap.frame), "err_code") = snap.err
        /\ snap.ripAt = snap.frame + 8 * Len(PushOrder) + 16
        /\ StubPushesDummy(Val(snap.vec)) <=> ~snap.cpuErr
        /\ Field(mem, W(snap.frame), "rip") = PcWord(snap.pc)

C2_Witness ==
    /\ pc = "dispatch" /\ via = "stub"
    /\ snap.vec = W(17) /\ snap.err = W(6)

\* C5: a dispatcher invocation with vector 32..47 makes exactly the port
\* writes of one acknowledgment (master always, slave iff vector >= 40);
\* with any other vector it writes to neither chip.
C5_AckByVector ==
    Dispatched =>
        IF \E v \in 32..47 : SawVector(v)
        THEN AckOnly(io, \E v \in 40..47 : SawVector(v))
        ELSE PicWrites(io) = <<>>

C5_Witness == Dispatched /\ SawVector(44) /\ pc = "landing" /\ Len(PicWrites(io)) = 2

\* C6: a dispatcher invocation with vector 32 adds exactly one to
\* TIMER_TICKS, acknowledges line 0 at the master only, returns to the
\* trampoline and neither reports a fault nor halts.
C6_TimerVector ==
    (Dispatched /\ SawVector(32)) =>
        /\ TIMER_TICKS = snap.ticks + 1
        /\ AckOnly(io, FALSE)
        /\ pc \in {"landing", snap.pc}
        /\ halts = snap.halts
        /\ ~InSerial(FaultReport)

C6_Witness == Dispatched /\ SawVector(32) /\ pc = "landing" /\ TIMER_TICKS = 2

\* C7: a dispatcher invocation with a vector 0..31, whatever the fault code,
\* reports the fault and ends halted: it has not returned, it made no port
\* write and TIMER_TICKS is as before.
C7_ExceptionsHalt ==
    (Dispatched /\ \E v \in 0..31 : SawVector(v)) =>
        /\ pc = "halted"
        /\ halts = snap.halts + 1
        /\ InSerial(FaultReport)
        /\ io = <<>>
        /\ TIMER_TICKS = snap.ticks
        /\ touched.wr = {}

C7_Witness == Dispatched /\ SawVector(14) /\ snap.err = W(6) /\ pc = "halted"

\* C8: a null frame pointer halts without any frame field having been read;
\* a vector number above 255 halts with no handler effect; both log.
C8_Validation ==
    (Dispatched /\ (snap.frame = 0 \/ Above255(snap.vec))) =>
        /\ pc = "halted"
        /\ halts = snap.halts + 1
        /\ serial # <<>>
        /\ io = <<>>
        /\ TIMER_TICKS = snap.ticks
        /\ touched.wr = {}
        /\ snap.frame = 0 => touched.rd = {}

C8_Witness == Dispatched /\ snap.frame = 0 /\ pc = "halted" /\ snap.iflag

\* C9: from the moment halt_system is entered, in every state the interrupt
\* flag is clear and the processor is halted or in a handler that halts
\* again, and no step changes TIMER_TICKS or the controller.
C9_HaltTerminal ==
    [][ halts' > 0 =>
          /\ ~iflag'
          /\ pc' \in {"halted", "dispatch"}
          /\ halts > 0 => (TIMER_TICKS' = TIMER_TICKS /\ pic' = pic) ]_vars

C9_Witness == halts = 2 /\ pc = "halted" /\ snap.iflag = FALSE /\ via = "stub"

(***************************************************************************)
(* Properties of the controller driver.                                    *)
(***************************************************************************)
\* C4: send_eoi(line) writes the end-of-interrupt command once to the
\* master's command port, once to the slave's command port if and only if
\* line >= 8, and writes no other controller port.
C4_SendEoi ==
    op.fn = "send_eoi" =>
        /\ AckOnly(io, op.arg >= 8)
        /\ \A i \in 1..Len(io) : io[i][1] = "out" /\ io[i][2] \in PicCommandPorts
        /\ pic[1].imr = op.before[1].imr /\ pic[2].imr = op.before[2].imr

C4_Witness == op.fn = "send_eoi" /\ op.arg = 12 /\ Len(io) = 2

\* C10: after init, whatever the mask registers held before, a read of
\* either chip's mask register gives 0xFF.
C10_InitMasksAll ==
    op.fn = "init" =>
        /\ get_mask(pic, FALSE) = 255 /\ get_mask(pic, TRUE) = 255
        /\ \A i \in 1..Len(result) : result[i][2] \in PicDataPorts /\ result[i][3] = 255

C10_Witness ==
    /\ op.fn = "init" /\ op.before[1].imr = 0 /\ op.before[2].imr = 184
    /\ result = <<In(PIC2_DATA, 255)>>

\* the vectors a chip raises: its base and the seven above it
VectorRange(c) == c.base..(c.base + 7)
\* bit b of the mask register of chip k (1 = master, 2 = slave)
MaskBit(p, k, b) == Bit(p[k].imr, b)
\* the chip that owns a line
Owner(line) == IF line < 8 THEN 1 ELSE 2

\* C11: init writes, in this order and master before slave at each step,
\* ICW1 0x11 to both command ports, the vector bases 0x20 and 0x28, the
\* cascade wiring 0x04 and 0x02, 8086 mode 0x01 to both and then the mask
\* 0xFF to both data ports; the chips end initialised with vector ranges
\* 32..39 and 40..47, which overlap neither each other nor 0..31.
C11_InitOrder ==
    op.fn = "init" =>
        /\ Len(PicWrites(io)) >= 10
        /\ SubSeq(PicWrites(io), 1, 10) =
               << <<"out", 32, 17>>, <<"out", 160, 17>>, <<"out", 33, 32>>, <<"out", 161, 40>>,
                  <<"out", 33, 4>>, <<"out", 161, 2>>, <<"out", 33, 1>>, <<"out", 161, 1>>,
                  <<"out", 33, 255>>, <<"out", 161, 255>> >>
        /\ pic[1].step = 0 /\ pic[2].step = 0
        /\ VectorRange(pic[1]) = 32..39
        /\ VectorRange(pic[2]) = 40..47
        /\ VectorRange(pic[1]) \cap VectorRange(pic[2]) = {}
        /\ (VectorRange(pic[1]) \cup VectorRange(pic[2])) \cap (0..31) = {}

C11_Witness ==
    /\ op.fn = "init" /\ op.before[1].base = 8 /\ op.before[2].base = 112
    /\ op.before[1].imr = 184 /\ pic[1].base = 32 /\ pic[2].base = 40

\* C12: unmask_irq(line) clears and mask_irq(line) sets the bit line mod 8
\* of the mask register of the chip that owns the line; the other seven
\* bits of that chip and the whole register of the other chip stay.
C12_MaskOneBit ==
    op.fn \in {"unmask_irq", "mask_irq"} =>
        /\ MaskBit(pic, Owner(op.arg), op.arg % 8) = (IF op.fn = "mask_irq" THEN 1 ELSE 0)
        /\ \A b \in (0..7) \ {op.arg % 8} :
               MaskBit(pic, Owner(op.arg), b) = MaskBit(op.before, Owner(op.arg), b)
        /\ pic[3 - Owner(op.arg)].imr = op.before[3 - Owner(op.arg)].imr

C12_Witness ==
    /\ op.fn = "unmask_irq" /\ op.arg = 12
    /\ op.before[2].imr = 184 /\ pic[2].imr = 168 /\ pic[1].imr = op.before[1].imr

\* C13 as stated: unmask_irq(line) followed by mask_irq(line) returns both
\* mask registers to their value before the unmask, whatever that was.
C13_RoundTripAlways ==
    op.fn = "unmask_then_mask" =>
        (pic[1].imr = op.before[1].imr /\ pic[2].imr = op.before[2].imr)

\* C13: unmask_irq(line) followed by mask_irq(line) returns both mask
\* registers to their value before the unmask when the line was masked
\* before; when it was not, the line ends masked and nothing else changed.
C13_RoundTripIfMasked ==
    op.fn = "unmask_then_mask" =>
        /\ MaskBit(op.before, Owner(op.arg), op.arg % 8) = 1 =>
               (pic[1].imr = op.before[1].imr /\ pic[2].imr = op.before[2].imr)
        /\ MaskBit(op.before, Owner(op.arg), op.arg % 8) = 0 =>
               /\ pic[Owner(op.arg)].imr = op.before[Owner(op.arg)].imr + Pow2(op.arg % 8)
               /\ pic[3 - Owner(op.arg)].imr = op.before[3 - Owner(op.arg)].imr

C13_Witness ==
    /\ op.fn = "unmask_then_mask" /\ op.arg = 3
    /\ op.before[1].imr = 184 /\ pic[1].imr = 184 /\ Len(io) = 4

(***************************************************************************)
(* Properties of the descriptor table.                                     *)
(***************************************************************************)
\* C3: once idt::init has returned, every one of the 256 descriptors is
\* not all-zero, is present with attribute 0x8E and the code segment
\* selector in use, and the address reassembled from its low, mid and high
\* fields is the address of isr<v> for v in 0..47 and of the default stub
\* for every other vector.
C3_TableBuilt ==
    pc \in AfterIdtInit =>
        \A v \in 0..255 :
            /\ IDT[v] # ZeroEntry
            /\ GatePresent(IDT[v])
            /\ IDT[v].flags = 142
            /\ IDT[v].selector = seg.cs
            /\ HandlerAddress(IDT[v]) # NULL
            /\ HandlerAddress(IDT[v]) =
                   (IF v \in 0..47 THEN isr(text, v) ELSE default_isr(text))

C3_Witness ==
    /\ pc = "poll" /\ via = "stub" /\ snap.vec = W(32) /\ TIMER_TICKS > 0
    /\ seg.cs = 40 /\ text = <<61440, 16, 0, 0>>
    /\ IDT[255] # ZeroEntry

(***************************************************************************)
(* Properties of the timer driver.                                         *)
(***************************************************************************)
IsPitWrite(e) == e[1] = "out" /\ e[2] \in {PIT_COMMAND, PIT_CHANNEL0}
PitWrites(evs) == SelectSeq(evs, IsPitWrite)
TimerRejectLog == "64-bit Timer init - ERROR: Divisor too large: 0x"

\* C14: timer::init(f) with 1,193,182 div f above 65,535, which is so for
\* exactly f = 1..18, logs the error and writes neither port 0x43 nor port
\* 0x40, leaving the chip as it was; with a divisor in 1..65,535, which is so
\* for every f from 19 up to 1,193,182, it programs the chip.
C14_TimerRejects ==
    op.fn = "timer_init" =>
        /\ (1193182 \div op.arg > 65535) <=> (op.arg \in 1..18)
        /\ op.arg \in 1..18 =>
               /\ PitWrites(io) = <<>>
               /\ InSerial(TimerRejectLog)
               /\ nops = 1 => pit = BootPit
        /\ (1193182 \div op.arg) \in 1..65535 =>
               /\ PitWrites(io) # <<>>
               /\ ~InSerial(TimerRejectLog)
               /\ pit.reload = 1193182 \div op.arg

C14_Witness ==
    /\ op.fn = "timer_init" /\ op.arg = 18 /\ io = <<>> /\ InSerial(TimerRejectLog)

\* C15: an accepted timer::init(f) makes exactly three port writes, in this
\* order: 0x34 to port 0x43, the divisor's low byte to port 0x40, its high
\* byte to port 0x40, with low + 256 * high = 1,193,182 div f (155 and 46,
\* i.e. 11931, for f = 100); the chip ends in mode 2 with that count.
C15_TimerWrites ==
    (op.fn = "timer_init" /\ 1193182 \div op.arg <= 65535) =>
        /\ Len(io) = 3
        /\ io[1] = <<"out", 67, 52>>
        /\ io[2][1] = "out" /\ io[2][2] = 64 /\ io[2][3] \in 0..255
        /\ io[3][1] = "out" /\ io[3][2] = 64 /\ io[3][3] \in 0..255
        /\ io[2][3] + 256 * io[3][3] = 1193182 \div op.arg
        /\ op.arg = 100 => (io[2][3] = 155 /\ io[3][3] = 46)
        /\ pit.mode = 2 /\ pit.next = "lo"
        /\ 1193182 \div op.arg >= 1 => pit.reload = 1193182 \div op.arg

C15_Witness ==
    /\ op.fn = "timer_init" /\ op.arg = 100
    /\ io = << <<"out", 67, 52>>, <<"out", 64, 155>>, <<"out", 64, 46>> >>
    /\ pit.reload = 11931

(***************************************************************************)
(* The self-test's polling loop.                                           *)
(***************************************************************************)

LoopLeft == selftest.report # "none"

\* C16: the self-test's polling loop ends after at most 1,000,001
\* iterations: while it runs the next iteration can always be taken, fewer
\* than 1,000,001 have begun and every tick count it read was below
\* initial + 10; it ends with the success report exactly when it read a tick
\* count of at least initial + 10, and with the timeout report otherwise,
\* after exactly 1,000,001 iterations; the statement after the loop is
\* reached only with one of the two reports made
C16_SelfTestEnds ==
    /\ selftest.iters <= 1000001
    /\ selftest.report = "success" => selftest.seen >= selftest.initial + 10
    /\ selftest.report = "timeout" =>
           selftest.seen < selftest.initial + 10 /\ selftest.iters = 1000001
    /\ (pc = "poll" /\ ~LoopLeft) =>
           /\ selftest.seen < selftest.initial + 10
           /\ selftest.iters = selftest.timeout
           /\ selftest.timeout <= 1000000
           /\ ENABLED Poll
    /\ LoopLeft => pc # "poll" /\ (pc = "dispatch" => snap.pc # "poll")
    /\ pc = "unmask_kbd" => LoopLeft
    /\ InSerial(SelfTestSuccess) => selftest.report = "success"
    /\ InSerial(SelfTestTimeout) => selftest.report = "timeout"
C16_Witness ==
    /\ selftest.report = "timeout"
    /\ selftest.iters = 1000001
    /\ selftest.seen > selftest.initial
    /\ InSerial(SelfTestTimeout)

(***************************************************************************)
(* Boot ordering.                                                          *)
(***************************************************************************)
\* the interrupt flag of the kernel's own code: while a handler runs, the
\* flag the handler's frame will restore
KernelIF == IF pc \in {"dispatch", "landing"} THEN snap.iflag ELSE iflag
TableReady ==
    /\ TableLoaded
    /\ idtr.limit = 4095
    /\ \A v \in 0..255 : GatePresent(IDT[v]) /\ HandlerAddress(IDT[v]) = AssignedHandler(text, v)
PicReady == pic[1].step = 0 /\ pic[2].step = 0 /\ pic[1].base = 32 /\ pic[2].base = 40
TimerReady == pit.mode = 2 /\ pit.next = "lo" /\ pit.reload = 11931
BootSteps == {"idt_fill", "idt_desc", "lidt", "verify", "pic_init", "timer_init"}

\* C17: once kmain has executed its cli, interrupts are enabled only with
\* the table built and loaded, the controller initialised and the timer
\* programmed for 100 Hz; they are disabled throughout these three steps;
\* every write to the controller outside its initialisation (unmask or
\* acknowledgment) finds it initialised; the flag is set only by the boot
\* sequence's sti or by an iretq giving the interrupted code its flag back,
\* it is cleared only by kmain's cli, by the processor entering a gate or
\* on the fatal-fault path, and the halted system has it clear
C17_BootOrder ==
    /\ []((KernelIF /\ pc # "kmain") => TableReady /\ PicReady /\ TimerReady)
    /\ [](pc \in BootSteps \cup {"sti"} => ~iflag)
    /\ [](pc = "halted" => ~iflag)
    /\ [][(PicWrites(io') # <<>> /\ pc # "pic_init") => PicReady]_vars
    /\ [][(~iflag /\ iflag') =>
              \/ pc = "sti" /\ pc' = "unmask_timer"
              \/ pc = "landing" /\ snap.iflag]_vars
    /\ [][(iflag /\ ~iflag') =>
              \/ pc = "kmain"
              \/ pc' \in {"dispatch", "default_isr"}
              \/ pc' = "halted"]_vars
C17_Witness ==
    /\ pc = "poll"
    /\ iflag
    /\ TIMER_TICKS > 0
    /\ AckOnly(io, FALSE)
    /\ TableReady /\ PicReady /\ TimerReady

(***************************************************************************)
(* The system-call path.                                                   *)
(***************************************************************************)
\* the rax the system-call path leaves for a caller that trapped with rax
SyscallResult(rax) == IF rax \in {W(0), W(1)} THEN rax ELSE U64_MAX
FrameAt(f) == Field(mem, W(snap.frame), f)

\* C18: entered through the vector-128 stub, the dispatcher never halts,
\* touches no port and leaves the tick counter alone; when it returns, the
\* frame's rax holds the call number if that was 0 or 1 and u64::MAX
\* otherwise, and every other field of the frame is as it was stored at
\* entry; after iretq the interrupted code resumes where it was with that
\* rax, its other registers, its stack pointer and its interrupt flag
C18_Syscall ==
    (via = "stub" /\ snap.vec = W(128) /\ pc # "dispatch") =>
        /\ pc # "halted"
        /\ halts = snap.halts
        /\ io = <<>>
        /\ TIMER_TICKS = snap.ticks
        /\ touched.wr = (IF snap.regs["rax"] \in {W(0), W(1)} THEN {} ELSE {"rax"})
        /\ pc = "landing" =>
               /\ FrameAt("rax") = SyscallResult(snap.regs["rax"])
               /\ \A r \in GPR \ {"rax"} : FrameAt(r) = snap.regs[r]
               /\ FrameAt("int_no") = W(128)
               /\ FrameAt("err_code") = W(0)
               /\ FrameAt("rip") = PcWord(snap.pc)
               /\ FrameAt("cs") = W(seg.cs)
               /\ FrameAt("rflags") = Rflags(snap.iflag)
               /\ FrameAt("rsp") = W(snap.rsp)
               /\ FrameAt("ss") = W(seg.ss)
        /\ snap.iretAt # 0 =>
               /\ regs = [snap.regs EXCEPT !["rax"] = SyscallResult(snap.regs["rax"])]
               /\ rsp = snap.rsp
               /\ pc = snap.pc
               /\ iflag = snap.iflag
\* an unknown call number, not already all ones, came back as u64::MAX
C18_Witness ==
    /\ via = "stub" /\ snap.vec = W(128) /\ snap.iretAt # 0
    /\ snap.regs["rax"] \notin {W(0), W(1), U64_MAX}
    /\ regs["rax"] = U64_MAX
    /\ pc = snap.pc

(***************************************************************************)
(* Vectors 48..255 once the kernel has booted.                             *)
(***************************************************************************)
\* the vector that fired went to default_isr, which has returned
DefaultReturned == via = "default" /\ pc # "default_isr"

\* C19, as stated: after boot the descriptor of vector 128 names the isr128 entry
\* stub, and a trap on vector 128 arrives at the dispatcher through that
\* stub, with int_no = 128 in the frame, to take the system-call arm
C19_SyscallGate ==
    /\ pc \in AfterIdtInit => HandlerAddress(IDT[128]) = isr128(text)
    /\ (via # "none" /\ snap.vec = W(128)) =>
           /\ via = "stub"
           /\ pc = "dispatch" =>
                  /\ Field(mem, regs["rdi"], "int_no") = W(128)
                  /\ Classify(128) = "syscall"

\* C20, as stated: after boot a vector of 48..127 or 129..255 that fired was only
\* logged: the system did not halt, the controller was not written, and the
\* interrupted code runs on where it was with every register and the stack
\* pointer as at entry
C20_UnusedVectorsResume ==
    (/\ via # "none"
     /\ \E v \in (48..127) \cup (129..255) : snap.vec = W(v)
     /\ pc \notin {"dispatch", "landing", "default_isr"}) =>
        /\ pc = snap.pc
        /\ halts = snap.halts
        /\ PicWrites(io) = <<>>
        /\ regs = snap.regs
        /\ rsp = snap.rsp

\* C19, as the table built by idt::init has it: the descriptor of vector 128
\* names default_isr, a different address from isr128, and a trap on it
\* runs default_isr, never the entry stub, the dispatcher or the
\* system-call path
C19_DefaultGate ==
    /\ pc \in AfterIdtInit =>
           /\ HandlerAddress(IDT[128]) = default_isr(text)
           /\ default_isr(text) # isr128(text)
    /\ (via # "none" /\ snap.vec = W(128)) =>
           /\ via = "default"
           /\ snap.frame = 0
           /\ pc \notin {"dispatch", "landing"}
           /\ ~InSerial("SYSCALL:")
C19_Witness ==
    /\ via = "default" /\ snap.vec = W(128)
    /\ pc = "hcf"
    /\ InSerial("[DEFAULT_64BIT_ISR]")

\* C20, as default_isr behaves for any vector it serves: the message,
\* no halt and no controller write, the interrupted code running on where
\* it was with its callee-saved registers, but with the stack pointer
\* still inside the frame the processor pushed (on the saved CS, 32 bytes
\* below the aligned stack pointer of entry) and the interrupt flag clear
C20_DefaultIsrReturn ==
    DefaultReturned =>
        /\ pc = snap.pc
        /\ halts = snap.halts
        /\ PicWrites(io) = <<>>
        /\ \A r \in GPR \ CallerSaved : regs[r] = snap.regs[r]
        /\ rsp = snap.ripAt + 8
        /\ rsp = (snap.rsp - (snap.rsp % 16)) - 32
        /\ Load(mem, rsp) = W(seg.cs)
        /\ ~iflag /\ snap.iflag
C20_Witness ==
    /\ DefaultReturned
    /\ snap.vec = W(48)
    /\ regs = snap.regs
    /\ rsp # snap.rsp
    /\ InSerial("[DEFAULT_64BIT_ISR]")

(***************************************************************************)
(* The diagnostic report.                                                  *)
(***************************************************************************)
Reported(v) == op.fn = "report" /\ op.arg = v
\* bit k of the reported fault code, from its numeric value
CodeBit(k) == (result[1][1] \div Pow2(k)) % 2
\* the words of the fault-type line, in the order written
FaultType == SelectSeq(serial, LAMBDA x : x \in {"Protection ", "Non-present ", "Write ", "Read ",
                                                "User ", "Supervisor "})

\* C21: the report for vector 14 decodes the fault code's low three bits
\* independently: bit 0 gives Protection, else Non-present; bit 1 gives
\* Write, else Read; bit 2 gives User, else Supervisor; one word of each pair
\* is written, and no higher bit of the code changes them
C21_PageFaultDecode ==
    /\ Reported(14) =>
           FaultType = << IF CodeBit(0) = 1 THEN "Protection " ELSE "Non-present ",
                          IF CodeBit(1) = 1 THEN "Write " ELSE "Read ",
                          IF CodeBit(2) = 1 THEN "User " ELSE "Supervisor " >>
    /\ (op.fn = "report" /\ op.arg # 14) => FaultType = <<>>
\* fault code 0b110 with high bits set above it: Non-present, Write, User
C21_Witness ==
    /\ Reported(14)
    /\ result[1] = <<6, 0, 0, 32768>>
    /\ FaultType = <<"Non-present ", "Write ", "User ">>

\* C22: the report contains a selector line exactly when the vector is 13
\* and the fault code is not zero
C22_SelectorLine ==
    op.fn = "report" =>
        (InSerial("Selector: 0x") <=> (op.arg = 13 /\ result[1] # <<0, 0, 0, 0>>))
\* a fault code for vector 13 whose low 16 bits are all zero
C22_Witness ==
    /\ Reported(13)
    /\ result[1] = <<0, 1, 0, 0>>
    /\ InSerial("Selector: 0x")

(***************************************************************************)
(* The tick counter.                                                       *)
(***************************************************************************)
\* the dispatcher runs on a frame of the timer vector (a non-maskable
\* interrupt arriving first leaves the location as it is)
TimerInvocation ==
    /\ pc = "dispatch" /\ pc' # "dispatch"
    /\ regs["rdi"] # NULL
    /\ Field(mem, regs["rdi"], "int_no") = W(32)
\* the foreground code has just loaded the counter
TicksRead == pc \in {"read_ticks", "poll"} /\ selftest' # selftest

\* C23: the tick counter is 0 when kmain starts; a step changes it exactly
\* when it is the dispatcher running on a vector-32 frame, and then by one
\* upwards, so that it counts these invocations; every other vector's
\* handling, default_isr, the controller and timer driver calls of the boot
\* and get_ticks leave it as it is, and get_ticks returns its value
C23_TickCount ==
    /\ [](pc = "kmain" => TIMER_TICKS = 0)
    /\ [][IF TimerInvocation THEN TIMER_TICKS' = TIMER_TICKS + 1
                             ELSE TIMER_TICKS' = TIMER_TICKS]_vars
    /\ [][TicksRead => selftest'.seen = TIMER_TICKS]_vars
\* two ticks counted, then a keyboard interrupt handled without a change,
\* after the boot's driver calls and the self-test's reads
C23_Witness ==
    /\ pc = "hcf"
    /\ TIMER_TICKS = 2
    /\ via = "stub" /\ snap.vec = W(33) /\ snap.iretAt # 0
    /\ snap.ticks = 2

(***************************************************************************)
(* The uptime queries.                                                     *)
(***************************************************************************)
\* the frequency timer::init was called with, if it programmed the timer
\* with a divisor of 1..65535
Configured == op.arg
TimerAccepted == pit.mode = 2 /\ pit.reload = PIT_FREQ \div Configured /\ pit.reload < 65536
Asked(fn) == op.fn = fn /\ TimerAccepted

\* C24, as stated: for every accepted frequency f and tick count t,
\* get_uptime_ms returns t * 1000 div f and get_uptime_seconds t div f
C24_UptimeOfFrequency ==
    /\ Asked("get_uptime_ms") => result = <<(TIMER_TICKS * 1000) \div Configured>>
    /\ Asked("get_uptime_seconds") => result = <<TIMER_TICKS \div Configured>>

\* C24, as the queries compute: t * 10 and t div 100 whatever frequency
\* was configured, which are t * 1000 div f and t div f for f = 100; they
\* write no port and leave the tick counter and the timer as they were
C24_UptimeAt100Hz ==
    /\ Asked("get_uptime_ms") => result = <<(TIMER_TICKS * 1000) \div 100>>
    /\ Asked("get_uptime_seconds") => result = <<TIMER_TICKS \div 100>>
    /\ op.fn \in {"get_uptime_ms", "get_uptime_seconds"} =>
           /\ io = <<>>
           /\ TIMER_TICKS \in TickCounts
           /\ pic = op.before
C24_Witness ==
    /\ Asked("get_uptime_ms")
    /\ Configured = 50
    /\ TIMER_TICKS = 250
    /\ result = <<2500>>

(***************************************************************************)
(* The descriptor table pointer.                                           *)
(***************************************************************************)
Unloaded == [limit |-> 0, base |-> NULL]
Loaded == [limit |-> 256 * 16 - 1, base |-> AddrOfIDT(text)]

\* C25: the processor's table register is written once in a boot, by the
\* lidt of idt::init, from the value it had at reset to limit 4095 and the
\* address of the 256-entry table; the read-back idt::init makes next is that
\* same pair, the register keeps it from then on, and the later check of
\* kmain finds it loaded correctly
C25_LoadedOnce ==
    /\ [](pc \in AfterIdtInit => idtr = Loaded /\ result = <<Loaded>>)
    /\ [](pc \in {"kmain", "idt_fill", "idt_desc", "lidt"} => idtr = Unloaded)
    /\ [][idtr' # idtr => (pc = "lidt" /\ pc' = "verify" /\ idtr = Unloaded)]_vars
    /\ [][(pc = "verify" /\ pc' = "pic_init") =>
              serial' = <<"64-bit IDT appears loaded correctly">>]_vars
\* the image linked at the other base: the pair read back has a base whose
\* low and second words both differ from zero
C25_Witness ==
    /\ pc = "verify"
    /\ text = <<61440, 16, 0, 0>>
    /\ result = <<[limit |-> 4095, base |-> AddrOfIDT(text)]>>
    /\ idtr.base[1] # 0 /\ idtr.base[2] # 0

\* the processor uses the kernel's table
Activated == idtr # Unloaded

\* C26: when the table-load instruction executes, and at any time the table
\* is active, all 256 descriptors have been written; each descriptor is
\* written once, by idt::init before the activation, and after it no step
\* writes a descriptor or the table pointer
C26_TableLifecycle ==
    /\ []((pc = "lidt" \/ Activated) =>
              /\ idx = 256
              /\ \A v \in 0..255 : IDT[v] # ZeroEntry
              /\ IDT_DESCRIPTOR = Loaded)
    /\ [][Activated => (IDT' = IDT /\ IDT_DESCRIPTOR' = IDT_DESCRIPTOR)]_vars
    /\ [][IDT' # IDT =>
              /\ pc = "idt_fill" /\ ~Activated
              /\ IDT[idx] = ZeroEntry
              /\ \A v \in 0..255 : v # idx => IDT'[v] = IDT[v]]_vars
\* still the table of the boot after timer and keyboard interrupts and a
\* vector that went to default_isr
C26_Witness ==
    /\ Activated
    /\ pc = "hcf" /\ via = "default" /\ TIMER_TICKS > 0
    /\ IDT[255] = set_handler(default_isr(text), seg.cs, 142)

(***************************************************************************)
(* Handlers and the code they interrupt.                                   *)
(***************************************************************************)
\* a handler invocation has begun and has not returned
HandlerActive == pc \in HandlerLocs \cup {"halted"}
\* this step is the processor entering a handler through a gate
VectorTaken == snap' # snap /\ snap'.iretAt = 0
NonMaskable == {W(2), W(18)}

\* C27 as stated: a vector is taken only while no handler invocation is
\* active, so that at most one is active at any time
C27_NoNesting == [][VectorTaken => ~HandlerActive]_vars

\* C27: while a handler invocation is active, from the gate to its return or
\* for ever once it halts, IF is clear: every descriptor of the active table
\* is an interrupt gate and no handler step sets IF.  So no hardware line
\* and no software vector is taken inside a handler; only the non-maskable
\* interrupt and the machine check, which IF does not hold back, enter
\* while one is active, and such an invocation halts without returning
C27_NoMaskableNesting ==
    /\ [](HandlerActive => ~iflag)
    /\ [](Activated => \A v \in 0..255 : IDT[v].flags = 142)
    /\ [][(VectorTaken /\ snap'.vec \notin NonMaskable) => pc \in KernelLocs]_vars
    /\ [][(VectorTaken /\ HandlerActive) => snap'.vec \in NonMaskable]_vars
    /\ [][(pc \in HandlerLocs /\ snap.pc \notin KernelLocs) => pc' \in {pc, "halted"}]_vars
\* the non-maskable interrupt was taken while the timer handler's exit path
\* ran, and its own handler halted the machine
C27_Witness ==
    /\ pc = "halted" /\ ~iflag
    /\ snap.pc = "landing" /\ snap.vec = W(2)
    /\ TIMER_TICKS = 1

ChipPorts == {PIC1_COMMAND, PIC1_DATA, PIC2_COMMAND, PIC2_DATA}
\* the i-th access of the call is a register write to one of the chips
ChipWrite(i) == io[i][1] = "out" /\ io[i][2] \in ChipPorts
\* the access after the i-th is the delay write to port 0x80
DelayAfter(i) == i < Len(io) /\ io[i + 1] = io_wait

\* C29 as stated: in every driver call each register write to a chip is
\* followed by the delay write before anything else is written
C29_DelayAfterEveryWrite ==
    op.fn \in {"init", "send_eoi", "unmask_irq", "mask_irq"} =>
        \A i \in 1..Len(io) : ChipWrite(i) => DelayAfter(i)

\* C29: pic::init follows each of its accesses to a chip, the two mask
\* reads included, with the delay write; send_eoi, unmask_irq and mask_irq
\* make no delay write at all: their register write is the last access of
\* the call, and send_eoi for a line of the slave chip writes the two
\* end-of-interrupt commands back to back
C29_DelayOnlyInInit ==
    /\ op.fn = "init" =>
           /\ Len(io) = 28
           /\ \A i \in 1..Len(io) : io[i][2] \in ChipPorts => DelayAfter(i)
    /\ op.fn \in {"send_eoi", "unmask_irq", "mask_irq", "unmask_then_mask"} =>
           /\ \A i \in 1..Len(io) : io[i] # io_wait
           /\ ChipWrite(Len(io))
    /\ (op.fn = "send_eoi" /\ op.arg >= 8) =>
           io = << Out(PIC2_COMMAND, PIC_EOI), Out(PIC1_COMMAND, PIC_EOI) >>
\* a completed initialisation: fourteen accesses, fourteen delays
C29_Witness ==
    /\ op.fn = "init"
    /\ Len(SelectSeq(io, LAMBDA e : e = io_wait)) = 14
    /\ io[27] = Out(PIC2_COMMAND, PIC_EOI) /\ io[28] = io_wait

(***************************************************************************)
(* The fatal path: report, then halt_system.                               *)
(***************************************************************************)
\* the dispatcher's step on a fatal condition: it writes the report and
\* then calls halt_system, so the report is written under the interrupt
\* flag the step starts with
FatalStep == pc = "dispatch" /\ pc' = "halted"

\* C30 as stated: on every fatal condition interrupts are already disabled
\* when the report is written
C30_DisabledBeforeReport == [][FatalStep => ~iflag]_vars

\* C30: on every fatal condition the dispatcher writes its report and then
\* halts with IF clear (halt_system's cli comes after the report).  When
\* the dispatcher was entered through a gate, IF was cleared by the gate, so
\* the report of a CPU exception is written with interrupts disabled; when
\* it was called directly, which is the only way to a null frame or an
\* out-of-range vector, the report is written under the caller's IF
C30_ReportThenCli ==
    /\ [][FatalStep =>
              /\ serial' # <<>>
              /\ ~iflag'
              /\ via = "stub" => (~iflag /\ InSerial(FaultReport)')
              /\ via = "call" => (iflag = snap.iflag /\ ~InSerial(FaultReport)')]_vars
    /\ [](pc = "halted" => ~iflag)
\* a frame with vector number 256 handed over with interrupts enabled: the
\* message is out and the machine halted
C30_Witness ==
    /\ pc = "halted" /\ ~iflag
    /\ via = "call" /\ snap.iflag
    /\ snap.frame # 0 /\ snap.vec = W(256)
    /\ serial = <<"FATAL: Invalid 64-bit interrupt number: ">>

(***************************************************************************)
(* The kernel-internal panic.                                              *)
(***************************************************************************)
\* the first line of the output names the subsystem and the reason given
Tagged ==
    /\ Len(serial) >= 5
    /\ SubSeq(serial, 1, 5) = <<"KERNEL PANIC in ", op.arg[1], ": ", op.arg[2], "\n">>
\* kernel_assert was called and its condition held
AssertHeld == op'.fn = "kernel_assert" /\ pc = "idle" /\ result' = <<TRUE>>

\* C31: kernel_panic, and kernel_assert with a false condition, write a
\* line naming the subsystem and the reason, enter panic_handler, which
\* repeats both in its report, and end halted with IF clear, whatever IF
\* was at the call; from the call on control never comes back to the
\* caller; kernel_assert with a true condition changes nothing
C31_KernelPanic ==
    /\ [](pc \in {"panic", "halted"} => Tagged)
    /\ [](pc = "halted" =>
              /\ ~iflag
              /\ InSerial("KERNEL PANIC OCCURRED!")
              /\ SubSeq(serial, 9, 12) = PanicMessage(op.arg[1], op.arg[2]))
    /\ [][pc = "panic" => pc' \in {"panic", "halted"}]_vars
    /\ [][pc = "halted" => pc' = "halted"]_vars
    /\ [][(pc = "idle" /\ op'.fn = "kernel_assert" /\ result' = <<FALSE>>) =>
              (pc' = "panic" /\ op'.arg[1] = "assertion")]_vars
    /\ [][AssertHeld => UNCHANGED <<pc, iflag, serial, io, pic, TIMER_TICKS, regs, rsp, mem,
                                    halts>>]_vars
\* a panic raised by the scheduler while interrupts were enabled
C31_Witness ==
    /\ pc = "halted" /\ ~iflag /\ snap.iflag
    /\ op.fn = "kernel_panic"
    /\ op.arg = <<"scheduler", "run queue empty">>
    /\ Len(serial) = 16

(***************************************************************************)
(* The keyboard vector.                                                    *)
(***************************************************************************)
\* the dispatcher runs on a frame of vector v
Invocation(v) ==
    /\ pc = "dispatch" /\ pc' # "dispatch"
    /\ regs["rdi"] # NULL
    /\ Field(mem, regs["rdi"], "int_no") = W(v)

\* C32: the dispatcher on a vector-33 frame makes two port accesses, in
\* this order: one read of the keyboard data port 0x60 and one write of the
\* end-of-interrupt command to the master chip's command port; it writes
\* nothing to the slave chip, leaves the tick counter alone and returns
C32_KeyboardVector ==
    [][Invocation(33) =>
           /\ \E sc \in 0..255 : io' = << In(96, sc), Out(32, 32) >>
           /\ pic'[2] = pic[2]
           /\ TIMER_TICKS' = TIMER_TICKS
           /\ pc' = (IF via = "stub" THEN "landing" ELSE "called")
           /\ halts' = halts]_vars
\* the key A was read and line 1 acknowledged at the master chip
C32_Witness ==
    /\ pc = "landing" /\ via = "stub"
    /\ snap.vec = W(33)
    /\ io = << In(KBD_DATA, 30), Out(PIC1_COMMAND, PIC_EOI) >>
    /\ InSerial("(A) ")
    /\ Bit(pic[1].isr, 1) = 0

(***************************************************************************)
(* The descriptor's address fields.                                        *)
(***************************************************************************)
\* C33: for a handler address a, given as its four 16-bit digits, the
\* descriptor set_handler writes has offset_low = a mod 2^16, offset_mid =
\* (a div 2^16) mod 2^16 and offset_high = a div 2^32 (its two 16-bit
\* digits), so the three fields put together give a again; the stack-table
\* index and the reserved word are zero, and the selector and the flags
\* are the ones passed
C33_AddressRoundTrip ==
    op.fn = "set_handler" =>
        LET e == result[1]
            a == op.arg
        IN /\ e.offset_low = a[1]
           /\ e.offset_mid = a[2]
           /\ e.offset_high = <<a[3], a[4]>>
           /\ HandlerAddress(e) = a
           /\ e.ist = 0 /\ e.reserved = 0
           /\ e.selector \in {8, 40} /\ e.flags \in {142, 0}
\* an address whose four digits all differ from one another's position
C33_Witness ==
    /\ op.fn = "set_handler"
    /\ op.arg = <<1, 32768, 65535, 32768>>
    /\ result[1].offset_high = <<65535, 32768>>
    /\ result[1].offset_low = 1 /\ result[1].offset_mid = 32768

(***************************************************************************)
(* Acknowledgment and the timer's progress.                                *)
(***************************************************************************)
NoneInService(p) == p[1].isr = 0 /\ p[2].isr = 0

\* C34: when the dispatcher has returned from the vector of a hardware
\* line, neither chip has a line in service, so every unmasked line can be
\* delivered again; and with line 0 unmasked and the timer device raising
\* it again and again, the tick counter reaches 10 and goes on to every
\* value the model allows
C34_NoStall ==
    /\ [](pc = "idle" => NoneInService(pic))
    /\ [][(pc = "dispatch" /\ pc' = "idle") =>
              (~NoneInService(pic) /\ NoneInService(pic') /\ pic'[1].imr = pic[1].imr
               /\ pic'[2].imr = pic[2].imr)]_vars
    /\ <>[](TIMER_TICKS >= TARGET_TICKS /\ TIMER_TICKS = MaxBootTicks)
\* ten ticks counted, a line of the slave chip handled last, and the timer
\* line can be delivered again
C34_Witness ==
    /\ pc = "idle"
    /\ TIMER_TICKS = TARGET_TICKS
    /\ op.fn = "irq" /\ op.arg = 44
    /\ io = << Out(PIC2_COMMAND, PIC_EOI), Out(PIC1_COMMAND, PIC_EOI) >>
    /\ NoneInService(pic) /\ LineDeliverable(pic, 0)

(***************************************************************************)
(* sleep_ticks.                                                            *)
(***************************************************************************)
Sleeping == pc = "sleep" /\ op.fn = "sleep_ticks"
SleepReturns == pc = "sleep" /\ pc' = "idle"
TimerArrives == iflag /\ LineDeliverable(pic, 0)

Masks(p) == <<p[1].imr, p[2].imr>>

\* C36: the handler of a hardware line leaves both mask registers as they
\* are, so unmask_irq or mask_irq, interrupted between its read and its
\* write by one handler invocation, ends with the mask registers the
\* uninterrupted call would have produced from the state at its read
C36_NoLostMaskUpdate ==
    /\ [][(pc = "masking" /\ pc' = "masking") => Masks(pic') = Masks(pic)]_vars
    /\ [](pc = "masking" => Masks(pic) = Masks(op.before))
    /\ [][(pc = "masking" /\ pc' = "idle") =>
              Masks(pic') = Masks(RunIo(op.before, MaskAccesses(op.fn, op.before, op.arg)))]_vars
\* unmask_irq(1) with the timer line already unmasked: a tick was handled
\* between its read and its write, and lines 0 and 1 are both unmasked
C36_Witness ==
    /\ pc = "idle"
    /\ op.fn = "unmask_irq" /\ op.arg = 1
    /\ via = "stub" /\ result = <<32>> /\ TIMER_TICKS = 1
    /\ Masks(op.before) = <<254, 255>>
    /\ Masks(pic) = <<252, 255>>

(***************************************************************************)
(* timer::init over the whole range of frequencies.                        *)
(***************************************************************************)
\* the divisor the three port writes of an accepted call carry
WrittenDivisor == io[2][3] + 256 * io[3][3]

\* C37 as stated: for every frequency, 0 and those above 1,193,182
\* included, timer::init either programs a divisor in 1..65,535 or logs and
\* returns without a timer port write; it never faults and never programs
\* a divisor of 0
C37_EveryFrequencyHandled ==
    op.fn = "timer_init" =>
        /\ pc # "panic"
        /\ \/ PitWrites(io) = <<>> /\ InSerial(TimerRejectLog)
           \/ Len(io) = 3 /\ WrittenDivisor \in 1..65535

\* C37, what the code does: for f in 1..1,193,182 timer::init either logs
\* and returns without a timer port write or programs a divisor in
\* 1..65,535; for f = 0 it panics on the division, with no port write and
\* no log; for f above 1,193,182 it programs the divisor 0, which the chip
\* counts as 65,536
C37_FrequencyRange ==
    op.fn = "timer_init" =>
        /\ op.arg = 0 => (pc = "panic" /\ PitWrites(io) = <<>> /\ ~InSerial(TimerRejectLog))
        /\ op.arg # 0 => pc = "idle"
        /\ op.arg > 1193182 =>
               /\ Len(io) = 3 /\ PitWrites(io) = io /\ WrittenDivisor = 0
               /\ ~InSerial(TimerRejectLog)
               /\ pit.mode = 2 /\ pit.reload = 65536
        /\ op.arg \in 1..1193182 =>
               \/ PitWrites(io) = <<>> /\ InSerial(TimerRejectLog)
               \/ Len(io) = 3 /\ WrittenDivisor \in 1..65535
C37_Witness ==
    /\ op.fn = "timer_init" /\ op.arg = 0 /\ pc = "panic" /\ io = <<>> /\ serial = <<>>

(***************************************************************************)
(* The dispatcher and the frame it is handed.                              *)
(***************************************************************************)
\* the address of the frame's rax, for the frame pointer fp
RaxAt(fp) == Val(fp) + FieldOffset("rax")

\* C38: whatever the vector and the input, the call of isr_common_handler
\* leaves every word of the frame and of the stack above it as it was,
\* except the frame's rax; rax is written only on vector 128 with a call
\* number other than 0 and 1, and then with u64::MAX.  Of the kernel's
\* statics the call changes only the tick counter, by at most one: nothing
\* is left that refers to the frame
C38_FrameReadOnly ==
    [][pc = "dispatch" =>
          /\ \A a \in StackAddrs :
                 (a >= rsp /\ (regs["rdi"] = NULL \/ a # RaxAt(regs["rdi"]))) => mem'[a] = mem[a]
          /\ touched'.wr \subseteq {"rax"}
          /\ (regs["rdi"] # NULL /\ ("rax" \in touched'.wr \/ mem'[RaxAt(regs["rdi"])] # mem[RaxAt(regs["rdi"])])) =>
                 /\ Field(mem, regs["rdi"], "int_no") = W(128)
                 /\ mem[RaxAt(regs["rdi"])] \notin {W(0), W(1)}
                 /\ mem'[RaxAt(regs["rdi"])] = U64_MAX
          /\ regs["rdi"] = NULL => touched'.wr = {}
          /\ TIMER_TICKS' \in {TIMER_TICKS, TickStep(TIMER_TICKS)}
          /\ UNCHANGED tables]_vars
\* the call returned on vector 128 with an unknown call number in rax: the
\* frame's rax is u64::MAX, its int_no and rip are as at entry
C38_Witness ==
    /\ pc = "landing" /\ via = "stub" /\ snap.vec = W(128)
    /\ snap.regs["rax"] \notin {W(0), W(1), U64_MAX}
    /\ touched.wr = {"rax"}
    /\ FrameAt("rax") = U64_MAX
    /\ FrameAt("int_no") = W(128)
    /\ FrameAt("rip") = PcWord(snap.pc)

(***************************************************************************)
(* os_interrupts: the state in which each handler executes iretq.          *)
(***************************************************************************)
OsiReturned == via = "stub" /\ snap.iretAt # 0
OsiSavedSet(v) == {OsiPushes(v)[i] : i \in 1..Len(OsiPushes(v))}

\* C39 as stated: when the iretq of any of the five handlers executes, the
\* stack pointer is at the pushed RIP (the fault code of vectors 13 and 14
\* discarded) and every caller-saved register holds its entry value
C39_ResumesCorrectly ==
    OsiReturned =>
        /\ snap.iretAt = snap.ripAt
        /\ \A r \in CallerSaved : regs[r] = snap.regs[r]

\* C39, what the handlers do: each restores exactly the registers it
\* pushed and leaves every other caller-saved register as the inner
\* function left it; the handler of 0x80 pushes all nine, so it resumes the
\* interrupted code with its registers, stack pointer and flag.  For
\* vectors 32, 33 and 128 iretq executes at the pushed RIP; for vectors 13
\* and 14 it executes one word below, at the fault code, which it takes as
\* RIP: control does not return to the interrupted code
C39_RestoresWhatItPushed ==
    OsiReturned =>
        /\ \A r \in OsiSavedSet(Val(snap.vec)) : regs[r] = snap.regs[r]
        /\ \A r \in CallerSaved \ OsiSavedSet(Val(snap.vec)) :
               regs[r] = IF r \in result[1] THEN JUNK ELSE snap.regs[r]
        /\ \A r \in GPR \ CallerSaved : regs[r] = snap.regs[r]
        /\ snap.vec \in {W(32), W(33), W(128)} =>
               /\ snap.iretAt = snap.ripAt
               /\ pc = snap.pc /\ rsp = snap.rsp /\ iflag = snap.iflag
        /\ snap.vec = W(128) => regs = snap.regs
        /\ snap.vec \in {W(13), W(14)} =>
               /\ snap.iretAt = snap.ripAt - 8
               /\ Load(mem, snap.iretAt) = snap.err
               /\ pc = "wild"
\* the timer handler returned after an inner function that changed every
\* caller-saved register: rsi is not what the interrupted code held
C39_Witness ==
    /\ OsiReturned /\ snap.vec = W(32) /\ result = <<CallerSaved>>
    /\ pc = snap.pc /\ regs["rax"] = snap.regs["rax"]
    /\ regs["rsi"] = JUNK /\ snap.regs["rsi"] # JUNK

====
